---- MODULE Spec2Model ----
(***************************************************************************)
(* Uptime monitor (froghouse/Uptime): the probe loop, the status tracker,  *)
(* the notifier and the scheduler of src/uptime_monitor.py and             *)
(* src/alert_manager.py, as an asyncio program: three tasks (run_monitor,  *)
(* monitoring_loop, scheduled_tasks) on one event loop.  A step of a task  *)
(* runs from one suspension point (an await that really suspends) to the   *)
(* next, atomically.                                                       *)
(*                                                                         *)
(* Python's Optional values are tuples here: None is << >> and a present   *)
(* value v is <<v>>.  A configuration field of the notifier is kept as its *)
(* truthiness, which is all the code reads of it.                          *)
(***************************************************************************)
EXTENDS Integers, Sequences, FiniteSets, TLC

VARIABLES
    config,                 \* MonitorConfig, immutable after construction
    EMAIL_AVAILABLE,        \* alert_manager.EMAIL_AVAILABLE (module constant)
    consecutive_failures,   \* UptimeMonitor.consecutive_failures
    last_status,            \* UptimeMonitor.last_status (Optional bool)
    running,                \* UptimeMonitor.running
    uptime_checks,          \* the rows of table uptime_checks, in insertion order
    run_monitor,            \* the task running run_monitor()
    monitoring_task,        \* the task running monitoring_loop()
    scheduled_task,         \* the task running scheduled_tasks()
    ping,                   \* locals of the ping_url() call in progress
    cycle,                  \* what the current probe cycle has done so far (observation)
    active_pings,           \* ping_url() calls begun and not yet ended (observation)
    streak,                 \* failures handled since the last handled success (observation)
    final_reports,          \* final reports attempted by run_monitor (observation)
    clock,                  \* datetime.now(), where time is explicit
    calls,                  \* the calls the latest store or maintenance step made (observation)
    returned,               \* the value the latest store operation returned
    timestamp,              \* the local timestamp of the ping_url() in progress
    daily_reports,          \* the reports scheduled_tasks generated, where its
                            \* ticks are timed (observation)
    loop_thread,            \* the coroutine the event loop's thread is running,
                            \* where its statements are single steps
    store_ops               \* the DatabaseManager calls entered and not yet
                            \* left (observation)

\* the variables of the store with explicit time
storeVars == <<clock, calls, returned>>

vars == <<config, EMAIL_AVAILABLE, consecutive_failures, last_status, running,
          uptime_checks, run_monitor, monitoring_task, scheduled_task, ping,
          cycle, active_pings, streak, final_reports, storeVars, timestamp, daily_reports, loop_thread, store_ops>>

----------------------------------------------------------------------------
(* Bounds of the exploration *)

\* largest consecutive_failures_threshold explored
MaxThreshold == 2
\* most rows the store holds before the model stops probing
MaxRows == 1
\* the last day of the explicit clock (days are numbered from 0)
MaxDay == 1
\* most rows the store with explicit time holds
MaxStored == 2
\* longest failure streak explored
MaxFailures == 3

----------------------------------------------------------------------------
(* Values *)

None == << >>
Some(v) == <<v>>

\* the HTTP status codes a response may carry in the model
StatusCodes == {200, 404}
\* response.elapsed.total_seconds(), in tenths of a second
ElapsedValues == {5}
\* str(e) of a RequestException; the empty string is a legal message
ErrorMessages == {"e1", "e2"}

\* What the executor call requests.get(url, timeout) produces: a response, an
\* exception derived from requests.exceptions.RequestException (connect error,
\* timeout, DNS, TLS, invalid URL), or an exception of another type (e.g. the
\* ValueError requests raises for a timeout <= 0).
GetOutcomes ==
    [kind : {"response"}, status_code : StatusCodes, elapsed : ElapsedValues,
     message : {""}]
    \cup [kind : {"RequestException"}, status_code : {0}, elapsed : {0},
          message : ErrorMessages]
    \cup [kind : {"Exception"}, status_code : {0}, elapsed : {0}, message : {""}]

Configs ==
    [alert_on_failure : BOOLEAN, alert_on_recovery : BOOLEAN,
     consecutive_failures_threshold : 1..MaxThreshold,
     smtp_server : BOOLEAN, smtp_username : BOOLEAN, smtp_password : BOOLEAN,
     alert_recipients : BOOLEAN, slack_webhook_url : BOOLEAN]

\* The notifier reads smtp_server and alert_recipients only together (the
\* test of send_alert, all([...]) of _send_email_alert), and smtp_username
\* and smtp_password only together (all([...])): a pair of which one field
\* is unset acts as the pair unset.  The runs explored set each pair together.
RunConfigs ==
    {c \in Configs : /\ c.smtp_server = c.alert_recipients
                     /\ c.smtp_username = c.smtp_password}

NoPing == [is_up |-> FALSE, response_time |-> None, status_code |-> None,
           error_message |-> None]

NoCycle == [outcome |-> "none", saved |-> "no", handled |-> FALSE,
            cf_before |-> 0, streak_before |-> 0, offered |-> None,
            dispatched |-> FALSE, email |-> "none", slack |-> "none",
            end |-> "none"]

\* no call made
NoCalls == [by |-> "none", list |-> << >>, deleted |-> 0]

NewTask == [pc |-> "created", must_cancel |-> FALSE, cancel_called |-> FALSE]

TaskDone(t) == t.pc \in {"returned", "cancelled", "raised"}

----------------------------------------------------------------------------
(* Probe Engine: the classification of ping_url *)

\* the only status code that counts as up
SuccessCode == 200

\* except requests.exceptions.RequestException: which outcomes of the GET
\* ping_url turns into a result (a response needs no handler)
PingCatches(kind) == kind \in {"response", "RequestException"}

\* a faulty variant: every response counts as up
Classify_AnyResponseUp(o) ==
    IF o.kind = "response"
    THEN [is_up |-> TRUE,
          response_time |-> Some(o.elapsed),
          status_code |-> Some(o.status_code),
          error_message |-> None]
    ELSE [is_up |-> FALSE, response_time |-> None, status_code |-> None,
          error_message |-> Some(o.message)]

\* the four locals ping_url sets from the outcome of the GET
Classify(o) ==
    IF o.kind = "response"
    THEN [is_up |-> (o.status_code = SuccessCode),
          response_time |-> Some(o.elapsed),
          status_code |-> Some(o.status_code),
          error_message |-> None]
    ELSE [is_up |-> FALSE, response_time |-> None, status_code |-> None,
          error_message |-> Some(o.message)]

\* the row save_check_result inserts for the locals p
Row(p) == [is_up |-> p.is_up, response_time |-> p.response_time,
           status_code |-> p.status_code, error_message |-> p.error_message]

\* the dict ping_url returns (its timestamp aside)
Result(p) == [is_up |-> p.is_up, response_time |-> p.response_time,
              status_code |-> p.status_code, error_message |-> p.error_message]

----------------------------------------------------------------------------
(* Status Tracker: _handle_status_change *)

\* a faulty variant: every success offers a recovery alert
OffersRecovery_EverySuccess(cf, is_up) == is_up

\* a success offers a recovery alert iff failures were counted
OffersRecovery(cf, is_up) == is_up /\ cf > 0

\* a faulty variant: a success leaves the counter as it is
NextFailures_NoReset(cf, is_up) == IF is_up THEN cf ELSE cf + 1

\* consecutive_failures once a probe has been handled
NextFailures(cf, is_up) == IF is_up THEN 0 ELSE cf + 1

\* a faulty variant: the failure alert carries the count before the increment
Intent_StaleCount(cf, p) ==
    IF p.is_up
    THEN IF OffersRecovery(cf, TRUE)
         THEN Some([is_failure |-> FALSE, consecutive_failures |-> 0,
                    error_message |-> None])
         ELSE None
    ELSE Some([is_failure |-> TRUE, consecutive_failures |-> cf,
               error_message |-> p.error_message])

\* the arguments of the send_alert call, if the probe makes one
Intent(cf, p) ==
    IF p.is_up
    THEN IF OffersRecovery(cf, TRUE)
         THEN Some([is_failure |-> FALSE, consecutive_failures |-> 0,
                    error_message |-> None])
         ELSE None
    ELSE Some([is_failure |-> TRUE,
               consecutive_failures |-> NextFailures(cf, FALSE),
               error_message |-> p.error_message])

----------------------------------------------------------------------------
(* Notifier: AlertManager *)

\* a faulty variant: the threshold itself does not alert yet
GatePasses_AboveThreshold(cfg, is_failure, n) ==
    /\ ~(is_failure /\ ~cfg.alert_on_failure)
    /\ ~(~is_failure /\ ~cfg.alert_on_recovery)
    /\ ~(is_failure /\ n <= cfg.consecutive_failures_threshold)

\* a faulty variant: alert_on_failure governs both classes of alert
GatePasses_OneFlag(cfg, is_failure, n) ==
    /\ cfg.alert_on_failure
    /\ ~(is_failure /\ n < cfg.consecutive_failures_threshold)

\* a faulty variant: the threshold gates recovery alerts as well
GatePasses_ThresholdForAll(cfg, is_failure, n) ==
    /\ ~(is_failure /\ ~cfg.alert_on_failure)
    /\ ~(~is_failure /\ ~cfg.alert_on_recovery)
    /\ ~(n < cfg.consecutive_failures_threshold)

\* the three early returns of send_alert
GatePasses(cfg, is_failure, n) ==
    /\ ~(is_failure /\ ~cfg.alert_on_failure)
    /\ ~(~is_failure /\ ~cfg.alert_on_recovery)
    /\ ~(is_failure /\ n < cfg.consecutive_failures_threshold)

\* send_alert calls _send_email_alert
EmailSelected(cfg) == cfg.smtp_server /\ cfg.alert_recipients

\* send_alert calls _send_slack_alert
SlackSelected(cfg) == cfg.slack_webhook_url

\* all([...]) in _send_email_alert
EmailComplete(cfg) ==
    cfg.smtp_server /\ cfg.smtp_username /\ cfg.smtp_password
    /\ cfg.alert_recipients

\* from email.mime.text import MimeText: the standard library defines
\* MIMEText and MIMEMultipart only, so the import raises ImportError
MimeImportOk == FALSE

\* _send_email_alert up to its await: what became of the e-mail, "in_flight"
\* when the message was handed to the executor
EmailAttempt(cfg, available) ==
    IF ~available THEN "skipped_unavailable"
    ELSE IF ~EmailComplete(cfg) THEN "skipped_incomplete"
    ELSE IF ~MimeImportOk THEN "failed"
    ELSE "in_flight"

\* _send_email_alert after its await; _send_email_sync swallows the SMTP error
EmailResult(outcome) ==
    CASE outcome = "ok" -> "delivered"
      [] outcome = "error" -> "smtp_failed"
      [] OTHER -> "failed"

\* a faulty variant: an error of the webhook post leaves _send_slack_alert
SlackCatches_Nothing(outcome) == outcome = "ok"

\* except Exception in _send_slack_alert: the errors of the webhook post it
\* catches
SlackCatches(outcome) == outcome \in {"ok", "error"}

\* _send_slack_alert after its await
SlackResult(outcome) == IF outcome = "ok" THEN "delivered" ELSE "failed"

----------------------------------------------------------------------------
(* Construction *)

\* UptimeMonitor.__init__ on a MonitorConfig, before run_monitor has run
Init ==
    /\ config \in RunConfigs
    /\ EMAIL_AVAILABLE \in BOOLEAN
    /\ consecutive_failures = 0
    /\ last_status = None
    /\ running = FALSE
    /\ uptime_checks = << >>
    /\ run_monitor = [pc |-> "created", must_cancel |-> FALSE,
                      gather |-> "none", cancel_requested |-> FALSE,
                      task_must_cancel |-> FALSE,
                      pending |-> "none", report |-> "none",
                      result |-> "none"]
    /\ monitoring_task = [NewTask EXCEPT !.pc = "none"]
    /\ scheduled_task = [NewTask EXCEPT !.pc = "none"]
    /\ ping = NoPing
    /\ cycle = NoCycle
    /\ active_pings = 0
    /\ streak = 0
    /\ final_reports = 0
    /\ clock = None
    /\ calls = NoCalls
    /\ returned = None
    /\ timestamp = None
    /\ daily_reports = << >>
    /\ loop_thread = "none"
    /\ store_ops = {}

----------------------------------------------------------------------------
(* Probe loop: monitoring_loop, ping_url, _handle_status_change, send_alert *)

\* a faulty variant: the probe is started but not awaited, the loop goes on
\* to its sleep
PingSuspension_NotAwaited == "sleep_interval"

\* await self.ping_url(): the loop is suspended in the GET of its own probe
PingSuspension == "get"

\* while self.running: await self.ping_url(), up to the await of the GET
StartPing ==
    IF running
    THEN /\ monitoring_task' = [monitoring_task EXCEPT !.pc = PingSuspension]
         /\ ping' = NoPing
         /\ cycle' = [NoCycle EXCEPT !.end = "running"]
         /\ active_pings' = active_pings + 1
    ELSE /\ monitoring_task' = [monitoring_task EXCEPT !.pc = "returned"]
         /\ UNCHANGED <<ping, cycle, active_pings>>

\* a faulty variant: no handler in monitoring_loop, the exception ends the
\* loop
PingRaises_Fatal(c) ==
    /\ cycle' = [c EXCEPT !.end = "raised"]
    /\ monitoring_task' = [monitoring_task EXCEPT !.pc = "raised"]
    /\ active_pings' = active_pings - 1

\* a faulty variant: after the exception the loop sleeps check_interval
PingRaises_NoBackoff(c) ==
    /\ cycle' = [c EXCEPT !.end = "raised"]
    /\ monitoring_task' = [monitoring_task EXCEPT !.pc = "sleep_interval"]
    /\ active_pings' = active_pings - 1

\* an exception leaves ping_url: except Exception in monitoring_loop logs it
\* and sleeps 60 seconds
PingRaises(c) ==
    /\ cycle' = [c EXCEPT !.end = "raised"]
    /\ monitoring_task' = [monitoring_task EXCEPT !.pc = "sleep_backoff"]
    /\ active_pings' = active_pings - 1

\* a faulty variant: last_status is never assigned
FinishPing_KeepsStatus(c, cf) ==
    /\ consecutive_failures' = IF ping'.is_up THEN NextFailures(cf, TRUE) ELSE cf
    /\ last_status' = last_status
    /\ cycle' = [c EXCEPT !.end = "returned"]
    /\ monitoring_task' = [monitoring_task EXCEPT !.pc = "sleep_interval"]
    /\ active_pings' = active_pings - 1

\* send_alert has returned: the rest of _handle_status_change and of ping_url,
\* then asyncio.sleep(check_interval)
FinishPing(c, cf) ==
    /\ consecutive_failures' = IF ping'.is_up THEN NextFailures(cf, TRUE) ELSE cf
    /\ last_status' = Some(ping'.is_up)
    /\ cycle' = [c EXCEPT !.end = "returned"]
    /\ monitoring_task' = [monitoring_task EXCEPT !.pc = "sleep_interval"]
    /\ active_pings' = active_pings - 1

\* a faulty variant: the webhook post is started and send_alert returns
\* without awaiting it
SlackStep_NotAwaited(c, cf) ==
    FinishPing([c EXCEPT !.slack = IF SlackSelected(config)
                                   THEN "in_flight" ELSE c.slack], cf)

\* send_alert from the webhook on: suspended in the post, or done
SlackStep(c, cf) ==
    IF SlackSelected(config)
    THEN /\ consecutive_failures' = cf
         /\ cycle' = [c EXCEPT !.slack = "in_flight"]
         /\ monitoring_task' = [monitoring_task EXCEPT !.pc = "slack"]
         /\ UNCHANGED <<last_status, active_pings>>
    ELSE FinishPing(c, cf)

\* send_alert from its gate to its first suspension
SendAlert(c, cf, intent) ==
    IF ~GatePasses(config, intent.is_failure, intent.consecutive_failures)
    THEN FinishPing(c, cf)
    ELSE LET e == IF EmailSelected(config)
                  THEN EmailAttempt(config, EMAIL_AVAILABLE)
                  ELSE "none"
             d == [c EXCEPT !.dispatched = TRUE, !.email = e]
         IN  CASE e = "in_flight" ->
                    /\ consecutive_failures' = cf
                    /\ cycle' = d
                    /\ monitoring_task' = [monitoring_task EXCEPT !.pc = "email"]
                    /\ UNCHANGED <<last_status, active_pings>>
               [] OTHER -> SlackStep(d, cf)

\* _handle_status_change up to the first suspension of its send_alert
HandleStatusChange(c) ==
    LET cf == consecutive_failures
        intent == Intent(cf, ping')
        mid == IF ping'.is_up THEN cf ELSE NextFailures(cf, FALSE)
        d == [c EXCEPT !.handled = TRUE, !.cf_before = cf,
                       !.streak_before = streak, !.offered = intent]
    IN  /\ streak' = IF ping'.is_up THEN 0 ELSE streak + 1
        /\ IF intent = None
           THEN FinishPing(d, mid)
           ELSE SendAlert(d, mid, intent[1])

\* monitoring_loop runs for the first time
MonitoringLoopStart ==
    /\ monitoring_task.pc = "created"
    /\ ~monitoring_task.must_cancel
    /\ StartPing
    /\ UNCHANGED <<config, EMAIL_AVAILABLE, consecutive_failures, last_status,
                   running, uptime_checks, run_monitor, scheduled_task,
                   streak, final_reports, storeVars, timestamp, daily_reports, loop_thread, store_ops>>

\* the GET ends with outcome o; save_check_result works or raises
GetReturns(o, save) ==
    /\ monitoring_task.pc = "get"
    /\ ~monitoring_task.must_cancel
    /\ (PingCatches(o.kind) /\ ~Classify(o).is_up)
          => consecutive_failures < MaxFailures
    /\ LET c == [cycle EXCEPT !.outcome = o.kind]
       IN  IF ~PingCatches(o.kind)
           THEN /\ PingRaises(c)
                /\ UNCHANGED <<ping, uptime_checks, consecutive_failures,
                               last_status, streak>>
           ELSE /\ ping' = Classify(o)
                /\ IF save = "raise"
                   THEN /\ PingRaises([c EXCEPT !.saved = "raised"])
                        /\ UNCHANGED <<uptime_checks, consecutive_failures,
                                       last_status, streak>>
                   ELSE /\ uptime_checks' = Append(uptime_checks, Row(ping'))
                        /\ HandleStatusChange([c EXCEPT !.saved = "yes"])
    /\ UNCHANGED <<config, EMAIL_AVAILABLE, running, run_monitor,
                   scheduled_task, final_reports, storeVars, timestamp, daily_reports, loop_thread, store_ops>>

\* the executor call of a channel send ends
ChannelSendReturns(outcome) ==
    /\ monitoring_task.pc \in {"email", "slack"}
    /\ ~monitoring_task.must_cancel
    /\ ping' = ping
    /\ IF monitoring_task.pc = "email"
       THEN SlackStep([cycle EXCEPT !.email = EmailResult(outcome)],
                      consecutive_failures)
       ELSE IF SlackCatches(outcome)
            THEN FinishPing([cycle EXCEPT !.slack = SlackResult(outcome)],
                            consecutive_failures)
            ELSE /\ PingRaises([cycle EXCEPT !.slack = "raised"])
                 /\ UNCHANGED <<consecutive_failures, last_status>>
    /\ UNCHANGED <<config, EMAIL_AVAILABLE, running, uptime_checks,
                   run_monitor, scheduled_task, streak, final_reports, storeVars, timestamp, daily_reports, loop_thread, store_ops>>

\* asyncio.sleep(check_interval) or asyncio.sleep(60) ends: the next iteration
SleepReturns ==
    /\ monitoring_task.pc \in {"sleep_interval", "sleep_backoff"}
    /\ ~monitoring_task.must_cancel
    /\ Len(uptime_checks) < MaxRows
    /\ StartPing
    /\ UNCHANGED <<config, EMAIL_AVAILABLE, consecutive_failures, last_status,
                   running, uptime_checks, run_monitor, scheduled_task,
                   streak, final_reports, storeVars, timestamp, daily_reports, loop_thread, store_ops>>

\* a faulty variant: the loop's handler takes a cancellation for an error
LoopSwallows_All(exc) == TRUE

\* except asyncio.CancelledError: raise / except Exception: in the loop body
\* of monitoring_loop: what is logged and answered with the backoff
LoopSwallows(exc) == exc = "Exception"

\* a faulty variant: a probe cancelled in its GET is counted as a failure
MonitoringLoopCancelled_CountsFailure ==
    /\ monitoring_task.must_cancel
    /\ ~TaskDone(monitoring_task)
    /\ monitoring_task.pc # "none"
    /\ monitoring_task' =
          [monitoring_task EXCEPT
              !.pc = IF monitoring_task.pc # "created"
                        /\ LoopSwallows("CancelledError")
                     THEN "sleep_backoff" ELSE "cancelled",
              !.must_cancel = FALSE]
    /\ IF monitoring_task.pc \in {"get", "email", "slack"}
       THEN /\ cycle' = [cycle EXCEPT
                            !.end = IF LoopSwallows("CancelledError")
                                    THEN "raised" ELSE "cancelled"]
            /\ active_pings' = active_pings - 1
       ELSE UNCHANGED <<cycle, active_pings>>
    /\ consecutive_failures' = IF monitoring_task.pc = "get"
                               THEN consecutive_failures + 1
                               ELSE consecutive_failures
    /\ UNCHANGED <<config, EMAIL_AVAILABLE, last_status,
                   running, uptime_checks, run_monitor, scheduled_task, ping,
                   streak, final_reports, storeVars, timestamp, daily_reports, loop_thread, store_ops>>

\* CancelledError is thrown into monitoring_loop where it is suspended; no
\* handler on the way catches it (except Exception does not), the loop logs
\* and re-raises
MonitoringLoopCancelled ==
    /\ monitoring_task.must_cancel
    /\ ~TaskDone(monitoring_task)
    /\ monitoring_task.pc # "none"
    /\ monitoring_task' =
          [monitoring_task EXCEPT
              !.pc = IF monitoring_task.pc # "created"
                        /\ LoopSwallows("CancelledError")
                     THEN "sleep_backoff" ELSE "cancelled",
              !.must_cancel = FALSE]
    /\ IF monitoring_task.pc \in {"get", "email", "slack"}
       THEN /\ cycle' = [cycle EXCEPT
                            !.end = IF LoopSwallows("CancelledError")
                                    THEN "raised" ELSE "cancelled"]
            /\ active_pings' = active_pings - 1
       ELSE UNCHANGED <<cycle, active_pings>>
    /\ UNCHANGED <<config, EMAIL_AVAILABLE, consecutive_failures, last_status,
                   running, uptime_checks, run_monitor, scheduled_task, ping,
                   streak, final_reports, storeVars, timestamp, daily_reports, loop_thread, store_ops>>

----------------------------------------------------------------------------
(* Maintenance loop: scheduled_tasks *)

\* the local times a maintenance check may see (weekday 6 is Sunday)
Times == [weekday : {1, 6}, hour : {0, 2, 12}, minute : {5, 6}]

\* a faulty variant: the window ends with minute 4
ReportDue_BeforeFive(now) == now.hour = 0 /\ now.minute < 5

\* now.hour == 0 and now.minute <= 5
ReportDue(now) == now.hour = 0 /\ now.minute <= 5

\* a faulty variant: the pruning is due on every day of the week
CleanupDue_AnyDay(now) == now.hour = 2 /\ now.minute <= 5

\* now.weekday() == 6 and now.hour == 2 and now.minute <= 5
CleanupDue(now) == now.weekday = 6 /\ now.hour = 2 /\ now.minute <= 5

\* DELETE FROM uptime_checks WHERE timestamp < cutoff: rows are stored in the
\* order of their timestamps, so the k rows older than the cutoff are the
\* first k
Prune(rows, k) == SubSeq(rows, k + 1, Len(rows))

\* a faulty variant: the weekly cleanup also clears the state of the monitor
ScheduledTasksStep_ClearsState(now, outcome, k) ==
    /\ scheduled_task.pc \in {"created", "tick"}
    /\ ~scheduled_task.must_cancel
    /\ IF ~running
       THEN /\ scheduled_task' = [scheduled_task EXCEPT !.pc = "returned"]
            /\ UNCHANGED <<uptime_checks, consecutive_failures, last_status>>
       ELSE IF (ReportDue(now) \/ CleanupDue(now)) /\ outcome = "raise"
       THEN /\ scheduled_task' = [scheduled_task EXCEPT !.pc = "raised"]
            /\ UNCHANGED <<uptime_checks, consecutive_failures, last_status>>
       ELSE /\ scheduled_task' = [scheduled_task EXCEPT !.pc = "tick"]
            /\ uptime_checks' = IF CleanupDue(now)
                                THEN Prune(uptime_checks, k)
                                ELSE uptime_checks
            /\ consecutive_failures' = IF CleanupDue(now) THEN 0
                                       ELSE consecutive_failures
            /\ last_status' = IF CleanupDue(now) THEN None ELSE last_status
    /\ UNCHANGED <<config, EMAIL_AVAILABLE, running, run_monitor,
                   monitoring_task, ping, cycle, active_pings, streak,
                   final_reports, storeVars, timestamp, daily_reports, loop_thread, store_ops>>

\* one iteration of scheduled_tasks, up to asyncio.sleep(300); neither
\* generate_daily_report nor cleanup_old_data suspends, and an exception of
\* either leaves the coroutine.  outcome is that of the one operation due at
\* now, k the number of rows older than the cutoff
ScheduledTasksStep(now, outcome, k) ==
    /\ scheduled_task.pc \in {"created", "tick"}
    /\ ~scheduled_task.must_cancel
    /\ IF ~running
       THEN /\ scheduled_task' = [scheduled_task EXCEPT !.pc = "returned"]
            /\ UNCHANGED uptime_checks
       ELSE IF (ReportDue(now) \/ CleanupDue(now)) /\ outcome = "raise"
       THEN /\ scheduled_task' = [scheduled_task EXCEPT !.pc = "raised"]
            /\ UNCHANGED uptime_checks
       ELSE /\ scheduled_task' = [scheduled_task EXCEPT !.pc = "tick"]
            /\ uptime_checks' = IF CleanupDue(now)
                                THEN Prune(uptime_checks, k)
                                ELSE uptime_checks
    /\ UNCHANGED <<config, EMAIL_AVAILABLE, consecutive_failures, last_status,
                   running, run_monitor, monitoring_task, ping, cycle,
                   active_pings, streak, final_reports, storeVars, timestamp, daily_reports, loop_thread, store_ops>>

\* CancelledError is thrown into scheduled_tasks in its sleep (or before it
\* ever ran); it logs and re-raises
ScheduledTasksCancelled ==
    /\ scheduled_task.must_cancel
    /\ ~TaskDone(scheduled_task)
    /\ scheduled_task.pc # "none"
    /\ scheduled_task' = [scheduled_task EXCEPT !.pc = "cancelled",
                                                !.must_cancel = FALSE]
    /\ UNCHANGED <<config, EMAIL_AVAILABLE, consecutive_failures, last_status,
                   running, uptime_checks, run_monitor, monitoring_task, ping,
                   cycle, active_pings, streak, final_reports, storeVars, timestamp, daily_reports, loop_thread, store_ops>>

----------------------------------------------------------------------------
(* Scheduler: run_monitor *)

\* Task.cancel(): a request the task meets at its next step; on a task that
\* is done it returns False and leaves the task as it is
Request(t) == IF TaskDone(t) THEN t ELSE [t EXCEPT !.must_cancel = TRUE]

\* monitoring_task.cancel() / scheduled_task.cancel() in the finally block of
\* run_monitor
Cancel(t) == [Request(t) EXCEPT !.cancel_called = TRUE]

\* run_monitor up to await asyncio.gather(monitoring_task, scheduled_task)
RunMonitorStart ==
    /\ run_monitor.pc = "created"
    /\ running' = TRUE
    /\ monitoring_task' = NewTask
    /\ scheduled_task' = NewTask
    /\ run_monitor' = [run_monitor EXCEPT !.pc = "gather",
                                          !.gather = "pending"]
    /\ UNCHANGED <<config, EMAIL_AVAILABLE, consecutive_failures, last_status,
                   uptime_checks, ping, cycle, active_pings, streak, final_reports, storeVars, timestamp, daily_reports, loop_thread, store_ops>>

Failed(t) == t.pc \in {"cancelled", "raised"}

\* Task.cancel() of run_monitor reaches the children through the future of
\* the gather it awaits: _GatheringFuture.cancel() does nothing once that
\* future is done, and cancels the children that still run otherwise
CancelPassedOn ==
    /\ run_monitor.pc = "gather" => run_monitor.gather = "pending"
    /\ ~TaskDone(monitoring_task) \/ ~TaskDone(scheduled_task)

\* cancel() is called on the task of run_monitor while it awaits a gather,
\* for the first time or again (must_cancel says that a request is not yet
\* delivered).  While the gather's future is pending and a child still runs
\* the request goes to the children that still run and the future remembers
\* it (_cancel_requested); otherwise (the future is done, run_monitor not yet
\* resumed, or no child is left to cancel) it sets Task._must_cancel of
\* run_monitor itself.  cancel_requested and task_must_cancel are kept for the
\* first gather, where they decide how the await ends; a request met in the
\* second gather ends it with CancelledError either way
CancelRunMonitor ==
    /\ run_monitor.pc \in {"gather", "cleanup"}
    /\ run_monitor' =
          [run_monitor EXCEPT
              !.must_cancel = TRUE,
              !.cancel_requested =
                  IF run_monitor.pc = "gather"
                  THEN run_monitor.cancel_requested \/ CancelPassedOn
                  ELSE run_monitor.cancel_requested,
              !.task_must_cancel =
                  IF run_monitor.pc = "gather"
                  THEN run_monitor.task_must_cancel \/ ~CancelPassedOn
                  ELSE run_monitor.task_must_cancel]
    /\ IF CancelPassedOn
       THEN /\ monitoring_task' = Request(monitoring_task)
            /\ scheduled_task' = Request(scheduled_task)
       ELSE UNCHANGED <<monitoring_task, scheduled_task>>
    /\ UNCHANGED <<config, EMAIL_AVAILABLE, consecutive_failures, last_status,
                   running, uptime_checks, ping, cycle, active_pings,
                   streak, final_reports, storeVars, timestamp, daily_reports, loop_thread, store_ops>>

\* what the done-callbacks of gather(monitoring_task, scheduled_task) give
\* its future: the exception of the first child that ended with one (a child
\* that raised ended before any child was cancelled, since a child asked to
\* cancel does nothing else), the list of results when both have returned, a
\* CancelledError instead of it when the gather was asked to cancel
GatherResult(mt, st, requested) ==
    IF mt.pc = "raised" \/ st.pc = "raised" THEN "Exception"
    ELSE IF mt.pc = "cancelled" \/ st.pc = "cancelled" THEN "CancelledError"
    ELSE IF requested THEN "CancelledError"
    ELSE "returned"

\* the done-callback of the first gather runs for a child that has ended and
\* completes the gather's future; run_monitor is resumed in a later step
GatherCallback ==
    /\ loop_thread = "none"
    /\ run_monitor.pc = "gather"
    /\ run_monitor.gather = "pending"
    /\ \/ Failed(monitoring_task) \/ Failed(scheduled_task)
       \/ TaskDone(monitoring_task) /\ TaskDone(scheduled_task)
    /\ run_monitor' =
          [run_monitor EXCEPT
              !.gather = GatherResult(monitoring_task, scheduled_task,
                                      run_monitor.cancel_requested)]
    /\ UNCHANGED <<config, EMAIL_AVAILABLE, consecutive_failures, last_status,
                   running, uptime_checks, monitoring_task, scheduled_task,
                   ping, cycle, active_pings, streak, final_reports,
                   storeVars, timestamp, daily_reports, loop_thread, store_ops>>

\* how await asyncio.gather(monitoring_task, scheduled_task) ends; interrupt
\* says a KeyboardInterrupt reaches the await (raised in the step of a child,
\* it is what the gather's future holds).  A request that marked run_monitor
\* itself is thrown in place of what the future holds; a request that went to
\* the gather shows only in what the future holds
GatherOutcome(interrupt) ==
    IF run_monitor.task_must_cancel THEN "CancelledError"
    ELSE IF interrupt THEN "KeyboardInterrupt"
    ELSE run_monitor.gather

\* the except clauses of run_monitor: what stays pending through the finally
Pending(outcome) == IF outcome = "Exception" THEN "Exception" ELSE "none"

\* run_monitor from the end of its first gather to the await of the second:
\* the except clauses and the finally block.  A KeyboardInterrupt ends the
\* await whether or not a cancellation was requested before it
GatherEnds(interrupt) ==
    /\ run_monitor.pc = "gather"
    /\ interrupt \/ run_monitor.gather # "pending"
    /\ running' = FALSE
    /\ monitoring_task' = Cancel(monitoring_task)
    /\ scheduled_task' = Cancel(scheduled_task)
    /\ run_monitor' = [run_monitor EXCEPT
                          !.pc = "cleanup", !.must_cancel = FALSE,
                          !.cancel_requested = FALSE,
                          !.task_must_cancel = FALSE,
                          !.gather = "none",
                          !.pending = Pending(GatherOutcome(interrupt))]
    /\ UNCHANGED <<config, EMAIL_AVAILABLE, consecutive_failures, last_status,
                   uptime_checks, ping, cycle, active_pings, streak, final_reports, storeVars, timestamp, daily_reports, loop_thread, store_ops>>

\* except Exception around the second gather: CancelledError is not an
\* Exception, so a cancellation met there leaves the finally block at once
CleanupCatches(exc) == exc = "Exception"

\* a faulty variant: an error of the final report leaves run_monitor
FinalResult_Escalates(pending, report) ==
    IF pending = "none" /\ report = "ok" THEN "returned" ELSE "raised_Exception"

\* try: await self.generate_daily_report() / except Exception: how
\* run_monitor ends after the final report, given what stayed pending
FinalResult(pending, report) ==
    IF pending = "none" THEN "returned" ELSE "raised_Exception"

\* run_monitor from the end of gather(..., return_exceptions=True), which
\* ends when both tasks are done, to its own end: the final report
CleanupEnds(report) ==
    /\ run_monitor.pc = "cleanup"
    /\ TaskDone(monitoring_task) /\ TaskDone(scheduled_task)
    /\ IF run_monitor.must_cancel /\ ~CleanupCatches("CancelledError")
       THEN /\ run_monitor' = [run_monitor EXCEPT
                                  !.pc = "done", !.must_cancel = FALSE,
                                  !.result = "raised_CancelledError"]
            /\ UNCHANGED final_reports
       ELSE /\ final_reports' = final_reports + 1
            /\ run_monitor' = [run_monitor EXCEPT
                                  !.pc = "done", !.must_cancel = FALSE,
                                  !.report = IF report = "ok" THEN "ok"
                                             ELSE "raised",
                                  !.result = FinalResult(run_monitor.pending,
                                                         report)]
    /\ UNCHANGED <<config, EMAIL_AVAILABLE, consecutive_failures, last_status,
                   running, uptime_checks, monitoring_task, scheduled_task,
                   ping, cycle, active_pings, streak, storeVars, timestamp, daily_reports, loop_thread, store_ops>>

----------------------------------------------------------------------------
(* The program *)

Next ==
    \/ RunMonitorStart
    \/ MonitoringLoopStart
    \/ \E o \in GetOutcomes, save \in {"ok", "raise"} : GetReturns(o, save)
    \/ \E outcome \in {"ok", "error"} : ChannelSendReturns(outcome)
    \/ SleepReturns
    \/ MonitoringLoopCancelled
    \/ \E now \in Times, outcome \in {"ok", "raise"}, k \in 0..MaxRows :
          /\ k <= Len(uptime_checks)
          /\ (k > 0 \/ outcome = "raise") => (ReportDue(now) \/ CleanupDue(now))
          /\ ScheduledTasksStep(now, outcome, k)
    \/ ScheduledTasksCancelled
    \/ CancelRunMonitor
    \/ GatherCallback
    \/ \E interrupt \in BOOLEAN : GatherEnds(interrupt)
    \/ \E report \in {"ok", "raise"} : CleanupEnds(report)

Spec == Init /\ [][Next]_vars

\* the monitor constructed with both classes of alert switched on: every
\* path of a probe cycle, through the gate and the channels, is taken
FairInit ==
    /\ Init
    /\ config.alert_on_failure /\ config.alert_on_recovery

\* asyncio.sleep returns once its delay has passed: a sleeping probe loop that
\* is not cancelled goes on
FairSpec == FairInit /\ [][Next]_vars /\ WF_vars(SleepReturns)

----------------------------------------------------------------------------
(* The store and the maintenance check with explicit local time:            *)
(* DatabaseManager on a table whose rows carry their timestamp and url, and *)
(* one iteration of scheduled_tasks at the time the clock shows             *)

\* the urls found in the table (the table may be shared by monitors)
Urls == {"u1", "u2"}

\* config.days_to_keep
DaysToKeep == {1, 2}

\* timedelta(days=1), in seconds
SecondsPerDay == 86400

\* the times of day the clock shows
TimesOfDay ==
    {[hour |-> 0, minute |-> 5, second |-> 0],
     [hour |-> 0, minute |-> 5, second |-> 30],
     [hour |-> 0, minute |-> 6, second |-> 0],
     [hour |-> 2, minute |-> 5, second |-> 30],
     [hour |-> 2, minute |-> 6, second |-> 0]}

\* date.weekday() of day d: Monday is 0, Sunday 6; day 0 is a Saturday
Weekday(d) == (d + 5) % 7

\* the datetime of day d at time of day t
Clock(d, t) == [day |-> d, weekday |-> Weekday(d), hour |-> t.hour,
                minute |-> t.minute, second |-> t.second]

Clocks == {Clock(d, t) : d \in 0..MaxDay, t \in TimesOfDay}

\* a datetime as seconds since day 0, 00:00:00: the order of timestamps
Timestamp(c) == c.day * SecondsPerDay + (c.hour * 60 + c.minute) * 60 + c.second

\* cutoff_date = datetime.now() - timedelta(days=days_to_keep)
Cutoff(now, days) == Timestamp(now) - days * SecondsPerDay

\* a faulty variant: a row as old as the cutoff is deleted too
Older_OrEqual(ts, cutoff) == ts <= cutoff

\* WHERE timestamp < ?
Older(ts, cutoff) == ts < cutoff

\* the table after DELETE FROM uptime_checks WHERE timestamp < cutoff
KeptRows(rows, cutoff) ==
    SelectSeq(rows, LAMBDA r : ~Older(r.timestamp, cutoff))

\* cursor.rowcount of the DELETE
DeletedRows(rows, cutoff) == Len(rows) - Len(KeptRows(rows, cutoff))

\* what cleanup_old_data returns: it logs the row count and has no return
\* statement
CleanupReturn(deleted) == None

\* the row save_check_result inserts at time ts for url u and the locals p
StoredRow(ts, u, p) ==
    [timestamp |-> ts, url |-> u, is_up |-> p.is_up,
     response_time |-> p.response_time, status_code |-> p.status_code,
     error_message |-> p.error_message]

\* the probe results stored in the table: a response and a transport error
StorePayloads ==
    {Classify(o) : o \in {g \in GetOutcomes :
                             g.status_code = SuccessCode \/ g.message = "e1"}}

\* yesterday = now.date() - timedelta(days=1), as a day number
Yesterday(now) == now.day - 1

\* the calls one iteration of scheduled_tasks makes at now
MaintenanceCalls(now, days) ==
    (IF ReportDue(now)
     THEN <<[op |-> "generate_daily_report", arg |-> Yesterday(now)]>>
     ELSE << >>)
    \o (IF CleanupDue(now)
        THEN <<[op |-> "cleanup_old_data", arg |-> days]>>
        ELSE << >>)

\* a monitor whose run_monitor has started its loops, on an empty table
StoreInit ==
    /\ config \in {[alert_on_failure |-> TRUE, alert_on_recovery |-> TRUE,
                     consecutive_failures_threshold |-> 1,
                     smtp_server |-> FALSE, smtp_username |-> FALSE,
                     smtp_password |-> FALSE, alert_recipients |-> FALSE,
                     slack_webhook_url |-> FALSE, days_to_keep |-> d] :
                        d \in DaysToKeep}
    /\ EMAIL_AVAILABLE = TRUE
    /\ consecutive_failures = 0
    /\ last_status = None
    /\ running = TRUE
    /\ uptime_checks = << >>
    /\ run_monitor = [pc |-> "gather", must_cancel |-> FALSE,
                      gather |-> "pending", cancel_requested |-> FALSE,
                      task_must_cancel |-> FALSE,
                      pending |-> "none", report |-> "none",
                      result |-> "none"]
    /\ monitoring_task = NewTask
    /\ scheduled_task = NewTask
    /\ ping = NoPing
    /\ cycle = NoCycle
    /\ active_pings = 0
    /\ streak = 0
    /\ final_reports = 0
    /\ clock \in {c \in Clocks : c.day = 0}
    /\ calls = NoCalls
    /\ returned = None
    /\ timestamp = None
    /\ daily_reports = << >>
    /\ loop_thread = "none"
    /\ store_ops = {}

programVars == <<config, EMAIL_AVAILABLE, consecutive_failures, last_status,
                 running, run_monitor, monitoring_task, scheduled_task, ping,
                 cycle, active_pings, streak, final_reports>>

\* time passes
ClockAdvances(t) ==
    /\ Timestamp(t) > Timestamp(clock)
    /\ clock' = t
    /\ calls' = NoCalls
    /\ UNCHANGED <<uptime_checks, returned, programVars, timestamp, daily_reports, loop_thread, store_ops>>

\* DatabaseManager.save_check_result(u, ...) with the locals p of a probe
SaveCheckResult(u, p) ==
    /\ Len(uptime_checks) < MaxStored
    /\ uptime_checks' = Append(uptime_checks, StoredRow(Timestamp(clock), u, p))
    /\ calls' = [by |-> "caller",
                 list |-> <<[op |-> "save_check_result", arg |-> 0]>>,
                 deleted |-> 0]
    /\ returned' = None
    /\ UNCHANGED <<clock, programVars, timestamp, daily_reports, loop_thread, store_ops>>

\* DatabaseManager.cleanup_old_data(days)
CleanupOldData(days) ==
    LET cutoff == Cutoff(clock, days)
        deleted == DeletedRows(uptime_checks, cutoff)
    IN  /\ uptime_checks' = KeptRows(uptime_checks, cutoff)
        /\ calls' = [by |-> "caller",
                     list |-> <<[op |-> "cleanup_old_data", arg |-> days]>>,
                     deleted |-> deleted]
        /\ returned' = CleanupReturn(deleted)
        /\ UNCHANGED <<clock, programVars, timestamp, daily_reports, loop_thread, store_ops>>

\* one iteration of scheduled_tasks at the time the clock shows, up to its
\* sleep; the report reads the table and changes nothing of it
MaintenanceCheck ==
    LET list == MaintenanceCalls(clock, config.days_to_keep)
        cutoff == Cutoff(clock, config.days_to_keep)
        prunes == \E i \in 1..Len(list) : list[i].op = "cleanup_old_data"
    IN  /\ running
        /\ uptime_checks' = IF prunes THEN KeptRows(uptime_checks, cutoff)
                            ELSE uptime_checks
        /\ calls' = [by |-> "scheduled_tasks", list |-> list,
                     deleted |-> IF prunes
                                 THEN DeletedRows(uptime_checks, cutoff)
                                 ELSE 0]
        /\ UNCHANGED <<clock, returned, programVars, timestamp, daily_reports, loop_thread, store_ops>>

StoreNext ==
    \/ \E t \in Clocks : ClockAdvances(t)
    \/ \E u \in Urls, p \in StorePayloads : SaveCheckResult(u, p)
    \/ \E days \in DaysToKeep : CleanupOldData(days)
    \/ MaintenanceCheck

StoreSpec == StoreInit /\ [][StoreNext]_vars

----------------------------------------------------------------------------
(* The queries of the store: DatabaseManager read by its callers, on the    *)
(* table with explicit time                                                 *)

\* the times of day the clock shows where the table is queried: the first
\* and the last second of a day and one between
QueryTimes ==
    {[hour |-> 0, minute |-> 0, second |-> 0],
     [hour |-> 0, minute |-> 5, second |-> 0],
     [hour |-> 23, minute |-> 59, second |-> 59]}

QueryClocks == {Clock(d, t) : d \in 0..MaxDay, t \in QueryTimes}

\* the dates asked for
QueryDays == 0..MaxDay

\* datetime.combine(target_date, dt_time.min)
StartOfDay(d) == d * SecondsPerDay

\* datetime.combine(target_date, dt_time.max): 23:59:59.999999, the last
\* instant of the day; timestamps are counted in whole seconds
EndOfDay(d) == d * SecondsPerDay + SecondsPerDay - 1

\* a faulty variant: the day ends where the next one starts
Between_NextMidnight(ts, d) ==
    StartOfDay(d) <= ts /\ ts <= StartOfDay(d + 1)

\* timestamp BETWEEN start_datetime AND end_datetime of target_date d.
\* The column holds the text of the datetime, year first and of fixed width,
\* so the comparison of the texts is the comparison of the instants
Between(ts, d) == StartOfDay(d) <= ts /\ ts <= EndOfDay(d)

\* the rowids of table rows, in insertion order
RowIds(rows) == 1..Len(rows)

\* ORDER BY timestamp, read backwards from the index idx_url_timestamp
\* (url, timestamp DESC): of two rows of one timestamp the later one inserted
\* comes first
Ascending(rows, i, j) ==
    \/ rows[i].timestamp < rows[j].timestamp
    \/ rows[i].timestamp = rows[j].timestamp /\ i > j

\* ORDER BY timestamp DESC, read from the index idx_url_timestamp: of two
\* rows of one timestamp the earlier one inserted comes first
Descending(rows, i, j) ==
    \/ rows[i].timestamp > rows[j].timestamp
    \/ rows[i].timestamp = rows[j].timestamp /\ i < j

\* the rows with the rowids in ids, in the order the query asks for
RECURSIVE Ordered(_, _, _)
Ordered(rows, ids, order) ==
    IF ids = {} THEN << >>
    ELSE LET first == CHOOSE i \in ids :
                          \A j \in ids \ {i} :
                              IF order = "DESC" THEN Descending(rows, i, j)
                              ELSE Ascending(rows, i, j)
         IN  <<rows[first]>> \o Ordered(rows, ids \ {first}, order)

\* what get_checks_for_date(url, target_date) returns
ChecksForDate(rows, u, d) ==
    Ordered(rows,
            {i \in RowIds(rows) :
                rows[i].url = u /\ Between(rows[i].timestamp, d)},
            "ASC")

\* the limit get_recent_checks takes where the caller gives none
DefaultLimit == 10

\* the limits asked for: None where the caller gives no limit
Limits == {None} \cup {Some(n) : n \in 0..MaxStored}

\* the parameter limit of get_recent_checks
LimitOf(given) == IF given = None THEN DefaultLimit ELSE given[1]

\* a faulty variant: every row is returned
Limited_All(seq, n) == seq

\* LIMIT n: the first n rows of the result; a negative n is no limit
Limited(seq, n) ==
    IF n < 0 \/ n >= Len(seq) THEN seq ELSE SubSeq(seq, 1, n)

\* what get_recent_checks(url, limit) returns
RecentChecks(rows, u, n) ==
    Limited(Ordered(rows, {i \in RowIds(rows) : rows[i].url = u}, "DESC"), n)

\* a faulty variant: the table is created anew
InitTable_Recreated(rows) == << >>

\* the table after CREATE TABLE IF NOT EXISTS and CREATE INDEX IF NOT EXISTS
\* on a database that has them
InitTable(rows) == rows

\* one call of a store operation by a caller
CallerCall(op, u, arg) ==
    [by |-> "caller", list |-> <<[op |-> op, url |-> u, arg |-> arg]>>,
     deleted |-> 0]

\* DatabaseManager.get_checks_for_date(u, d)
GetChecksForDate(u, d) ==
    /\ returned' = Some(ChecksForDate(uptime_checks, u, d))
    /\ calls' = CallerCall("get_checks_for_date", u, d)
    /\ UNCHANGED <<uptime_checks, clock, programVars, timestamp, daily_reports, loop_thread, store_ops>>

\* DatabaseManager.get_recent_checks(u) and get_recent_checks(u, limit)
GetRecentChecks(u, given) ==
    /\ returned' = Some(RecentChecks(uptime_checks, u, LimitOf(given)))
    /\ calls' = CallerCall("get_recent_checks", u, LimitOf(given))
    /\ UNCHANGED <<uptime_checks, clock, programVars, timestamp, daily_reports, loop_thread, store_ops>>

\* DatabaseManager(db_path) on the database file of the table: __init__ runs
\* init_database
InitDatabase ==
    /\ uptime_checks' = InitTable(uptime_checks)
    /\ calls' = CallerCall("init_database", "", 0)
    /\ returned' = None
    /\ UNCHANGED <<clock, programVars, timestamp, daily_reports, loop_thread, store_ops>>

\* the probe results stored in the table that is queried: the queries select
\* by url and timestamp
QueryPayloads == {p \in StorePayloads : p.is_up}

\* the table is empty and no maintenance runs: one retention period is enough
QueryInit ==
    /\ StoreInit
    /\ clock \in QueryClocks
    /\ config.days_to_keep = 1

QueryNext ==
    \/ \E t \in QueryClocks : ClockAdvances(t)
    \/ \E u \in Urls, p \in QueryPayloads : SaveCheckResult(u, p)
    \/ \E days \in DaysToKeep : CleanupOldData(days)
    \/ \E u \in Urls, d \in QueryDays : GetChecksForDate(u, d)
    \/ \E u \in Urls, given \in Limits : GetRecentChecks(u, given)
    \/ InitDatabase

QuerySpec == QueryInit /\ [][QueryNext]_vars

----------------------------------------------------------------------------
(* The probe with explicit time: ping_url() of a monitor whose config names *)
(* no channel, on the table with explicit time. Its GET takes time; what    *)
(* follows the GET runs without suspension, as send_alert has no channel to *)
(* await                                                                    *)

\* config.url
MonitorUrl == "u1"

\* what the GET of a timed probe does: a 200 response, a transport error, or
\* an exception ping_url does not catch
ProbeOutcomes ==
    {g \in GetOutcomes :
        g.status_code = SuccessCode \/ g.message = "e1" \/ g.kind = "Exception"}

\* the dict ping_url returns: the timestamp is the local taken before the GET
TimedResult(ts, p) ==
    [timestamp |-> ts, is_up |-> p.is_up, response_time |-> p.response_time,
     status_code |-> p.status_code, error_message |-> p.error_message]

\* a faulty variant: the row is stored under the url of another monitor
SavedUrl_Other == "u2"

\* the url ping_url passes to save_check_result
SavedUrl == MonitorUrl

\* what ping_url did on the store
PingCall(list) == [by |-> "ping_url", list |-> list, deleted |-> 0]

\* ping_url() from its call to its await of the GET
PingUrlStarts ==
    /\ running
    /\ timestamp = None
    /\ Len(uptime_checks) < MaxStored
    /\ timestamp' = Some(Timestamp(clock))
    /\ calls' = NoCalls
    /\ UNCHANGED <<uptime_checks, clock, returned, programVars, daily_reports, loop_thread, store_ops>>

\* the GET of ping_url() ends with o at the time the clock shows, and
\* ping_url() runs to its end: save_check_result, which raises or not, and
\* _handle_status_change
PingUrlEnds(o, save) ==
    /\ timestamp # None
    /\ (PingCatches(o.kind) /\ ~Classify(o).is_up)
          => consecutive_failures < MaxFailures
    /\ timestamp' = None
    /\ IF PingCatches(o.kind) /\ save = "ok"
       THEN LET p == Classify(o)
            IN  /\ ping' = p
                /\ uptime_checks' =
                      Append(uptime_checks,
                             StoredRow(Timestamp(clock), SavedUrl, p))
                /\ consecutive_failures' =
                      NextFailures(consecutive_failures, p.is_up)
                /\ streak' = IF p.is_up THEN 0 ELSE streak + 1
                /\ last_status' = Some(p.is_up)
                /\ returned' = Some(TimedResult(timestamp[1], p))
                /\ calls' = PingCall(<<[op |-> "save_check_result",
                                        url |-> SavedUrl, arg |-> 0]>>)
       ELSE /\ ping' = IF PingCatches(o.kind) THEN Classify(o) ELSE ping
            /\ returned' = None
            /\ calls' = PingCall(<< >>)
            /\ UNCHANGED <<uptime_checks, consecutive_failures, streak,
                           last_status>>
    /\ UNCHANGED <<clock, config, EMAIL_AVAILABLE, running, run_monitor,
                   monitoring_task, scheduled_task, cycle, active_pings,
                   final_reports, daily_reports, loop_thread, store_ops>>

ProbeInit == QueryInit

ProbeNext ==
    \/ \E t \in QueryClocks : ClockAdvances(t)
    \/ PingUrlStarts
    \/ \E o \in ProbeOutcomes, save \in {"ok", "raise"} : PingUrlEnds(o, save)
    \/ \E days \in DaysToKeep : CleanupOldData(days)
    \/ \E d \in QueryDays : GetChecksForDate(MonitorUrl, d)
    \/ GetRecentChecks(MonitorUrl, None)
    \/ InitDatabase

ProbeSpec == ProbeInit /\ [][ProbeNext]_vars

----------------------------------------------------------------------------
(* The ticks of the maintenance loop with explicit time: scheduled_tasks    *)
(* from before a midnight until its window has passed                       *)

\* await asyncio.sleep(300), in seconds
TickSeconds == 300

\* the seconds the work of one iteration takes: the report and the cleanup
\* it may run before its sleep, each less than a minute
WorkSeconds == {0, 1, 30, 59}

\* the first midnight the loop runs through, in seconds since day 0, 00:00:00
Midnight == SecondsPerDay

\* the seconds after Midnight at which the clock is past the window of the
\* report
WindowSeconds == 360

\* the datetime that is s seconds after day 0, 00:00:00
ClockAt(s) ==
    Clock(s \div SecondsPerDay,
          [hour |-> (s % SecondsPerDay) \div 3600,
           minute |-> (s % 3600) \div 60,
           second |-> s % 60])

\* the times at which the loop makes its first check: any second of the six
\* minutes before Midnight
TickStarts == {ClockAt(Midnight - s) : s \in 1..WindowSeconds}

\* a monitor whose scheduled_tasks is about to make a check, on an empty table
TickInit ==
    /\ config = [alert_on_failure |-> TRUE, alert_on_recovery |-> TRUE,
                 consecutive_failures_threshold |-> 1,
                 smtp_server |-> FALSE, smtp_username |-> FALSE,
                 smtp_password |-> FALSE, alert_recipients |-> FALSE,
                 slack_webhook_url |-> FALSE, days_to_keep |-> 1]
    /\ EMAIL_AVAILABLE = TRUE
    /\ consecutive_failures = 0
    /\ last_status = None
    /\ running = TRUE
    /\ uptime_checks = << >>
    /\ run_monitor = [pc |-> "gather", must_cancel |-> FALSE,
                      gather |-> "pending", cancel_requested |-> FALSE,
                      task_must_cancel |-> FALSE,
                      pending |-> "none", report |-> "none",
                      result |-> "none"]
    /\ monitoring_task = NewTask
    /\ scheduled_task = NewTask
    /\ ping = NoPing
    /\ cycle = NoCycle
    /\ active_pings = 0
    /\ streak = 0
    /\ final_reports = 0
    /\ clock \in TickStarts
    /\ calls = NoCalls
    /\ returned = None
    /\ timestamp = None
    /\ daily_reports = << >>
    /\ loop_thread = "none"
    /\ store_ops = {}

\* one iteration of scheduled_tasks: the check at the time the clock shows,
\* the work it finds due, which takes w seconds, and the sleep of 300 seconds
TickIteration(w) ==
    LET list == MaintenanceCalls(clock, config.days_to_keep)
        cutoff == Cutoff(clock, config.days_to_keep)
        prunes == \E i \in 1..Len(list) : list[i].op = "cleanup_old_data"
    IN  /\ running
        /\ Timestamp(clock) < Midnight + WindowSeconds
        /\ daily_reports' =
              IF ReportDue(clock)
              THEN Append(daily_reports,
                          [target_date |-> Yesterday(clock),
                           at |-> Timestamp(clock)])
              ELSE daily_reports
        /\ uptime_checks' = IF prunes THEN KeptRows(uptime_checks, cutoff)
                            ELSE uptime_checks
        /\ calls' = [by |-> "scheduled_tasks", list |-> list,
                     deleted |-> IF prunes
                                 THEN DeletedRows(uptime_checks, cutoff)
                                 ELSE 0]
        /\ clock' = ClockAt(Timestamp(clock) + w + TickSeconds)
        /\ UNCHANGED <<returned, programVars, timestamp, loop_thread, store_ops>>

TickNext == \E w \in WorkSeconds : TickIteration(w)

TickSpec == TickInit /\ [][TickNext]_vars

----------------------------------------------------------------------------
(* The coroutines statement by statement: the one thread of the event loop  *)
(* runs a coroutine from where it was parked to its next await that really  *)
(* suspends; a call of DatabaseManager is entered in one step and left in   *)
(* the next.  No channel is configured, so send_alert does not suspend.     *)

Coroutines == {"run_monitor", "monitoring_loop", "scheduled_tasks"}

\* a faulty variant: save_check_result is awaited and suspends the coroutine
Yields_InSave(pc) ==
    pc \in {"get", "sleep_interval", "sleep_backoff", "tick", "gather",
            "cleanup", "save"}

\* the positions where a coroutine is suspended: the awaits of the GET in the
\* executor, of asyncio.sleep and of asyncio.gather.  The calls of self.db are
\* plain calls
Yields(pc) ==
    pc \in {"get", "sleep_interval", "sleep_backoff", "tick", "gather",
            "cleanup"}

\* a coroutine the event loop can run next: it holds the thread, or the thread
\* is free and the coroutine is a task not yet started or suspended
Runs(name, t) ==
    \/ loop_thread = name
    \/ loop_thread = "none" /\ (t.pc = "created" \/ Yields(t.pc))

\* the thread after a step that leaves the coroutine at pc
Thread(name, pc) ==
    IF Yields(pc) \/ pc \in {"returned", "cancelled", "raised", "done"}
    THEN "none" ELSE name

StoreOp(op, by) == [op |-> op, by |-> by]

\* the calls of DatabaseManager a coroutine has entered
OpsOf(by) == {o \in store_ops : o.by = by}

\* run_monitor has started both tasks and awaits its gather; the table is
\* empty
ThreadInit ==
    /\ config \in {[alert_on_failure |-> TRUE, alert_on_recovery |-> TRUE,
                     consecutive_failures_threshold |-> 1,
                     smtp_server |-> FALSE, smtp_username |-> FALSE,
                     smtp_password |-> FALSE, alert_recipients |-> FALSE,
                     slack_webhook_url |-> FALSE, days_to_keep |-> 1]}
    /\ EMAIL_AVAILABLE = TRUE
    /\ consecutive_failures = 0
    /\ last_status = None
    /\ running = TRUE
    /\ uptime_checks = << >>
    /\ run_monitor = [pc |-> "gather", must_cancel |-> FALSE,
                      gather |-> "pending", cancel_requested |-> FALSE,
                      task_must_cancel |-> FALSE,
                      pending |-> "none", report |-> "none",
                      result |-> "none"]
    /\ monitoring_task = NewTask
    /\ scheduled_task = NewTask
    /\ ping = NoPing
    /\ cycle = NoCycle
    /\ active_pings = 0
    /\ streak = 0
    /\ final_reports = 0
    /\ clock = Clock(0, [hour |-> 0, minute |-> 5, second |-> 0])
    /\ calls = NoCalls
    /\ returned = None
    /\ timestamp = None
    /\ daily_reports = << >>
    /\ loop_thread = "none"
    /\ store_ops = {}

threadFrame == <<config, EMAIL_AVAILABLE, cycle, active_pings, streak,
                 storeVars, timestamp, daily_reports>>

\* monitoring_loop from its start or a sleep to the await of the GET
LoopIterates ==
    /\ Runs("monitoring_loop", monitoring_task)
    /\ monitoring_task.pc \in {"created", "sleep_interval", "sleep_backoff"}
    /\ ~monitoring_task.must_cancel
    /\ Len(uptime_checks) < MaxStored
    /\ LET pc == IF running THEN "get" ELSE "returned"
       IN  /\ monitoring_task' = [monitoring_task EXCEPT !.pc = pc]
           /\ loop_thread' = Thread("monitoring_loop", pc)
    /\ UNCHANGED <<consecutive_failures, last_status, running, uptime_checks,
                   run_monitor, scheduled_task, ping, final_reports,
                   store_ops, threadFrame>>

\* the GET ends with o: an exception ping_url does not catch goes to the
\* handler of the loop, anything else enters save_check_result
GetEnds(o) ==
    /\ Runs("monitoring_loop", monitoring_task)
    /\ monitoring_task.pc = "get"
    /\ ~monitoring_task.must_cancel
    /\ (PingCatches(o.kind) /\ ~Classify(o).is_up)
          => consecutive_failures < MaxFailures
    /\ LET pc == IF PingCatches(o.kind) THEN "save" ELSE "sleep_backoff"
       IN  /\ monitoring_task' = [monitoring_task EXCEPT !.pc = pc]
           /\ loop_thread' = Thread("monitoring_loop", pc)
           /\ ping' = IF PingCatches(o.kind) THEN Classify(o) ELSE ping
           /\ store_ops' =
                 IF PingCatches(o.kind)
                 THEN store_ops
                         \cup {StoreOp("save_check_result", "monitoring_loop")}
                 ELSE store_ops
    /\ UNCHANGED <<consecutive_failures, last_status, running, uptime_checks,
                   run_monitor, scheduled_task, final_reports, threadFrame>>

\* save_check_result is left, by its return or by an exception; after the
\* return _handle_status_change runs (no alert is dispatched) and the loop
\* goes to its sleep
SaveEnds(save) ==
    /\ Runs("monitoring_loop", monitoring_task)
    /\ monitoring_task.pc = "save"
    /\ store_ops' = store_ops \ OpsOf("monitoring_loop")
    /\ LET pc == IF save = "raise" THEN "sleep_backoff" ELSE "sleep_interval"
       IN  /\ monitoring_task' = [monitoring_task EXCEPT !.pc = pc]
           /\ loop_thread' = Thread("monitoring_loop", pc)
    /\ IF save = "raise"
       THEN UNCHANGED <<uptime_checks, consecutive_failures, last_status>>
       ELSE /\ uptime_checks' = Append(uptime_checks, Row(ping))
            /\ consecutive_failures' =
                  NextFailures(consecutive_failures, ping.is_up)
            /\ last_status' = Some(ping.is_up)
    /\ UNCHANGED <<running, run_monitor, scheduled_task, ping, final_reports,
                   threadFrame>>

\* CancelledError is thrown into monitoring_loop where it is suspended
LoopCancelled ==
    /\ Runs("monitoring_loop", monitoring_task)
    /\ monitoring_task.pc = "created" \/ Yields(monitoring_task.pc)
    /\ monitoring_task.must_cancel
    /\ monitoring_task' = [monitoring_task EXCEPT !.pc = "cancelled",
                                                  !.must_cancel = FALSE]
    /\ loop_thread' = "none"
    /\ store_ops' = store_ops \ OpsOf("monitoring_loop")
    /\ UNCHANGED <<consecutive_failures, last_status, running, uptime_checks,
                   run_monitor, scheduled_task, ping, final_reports,
                   threadFrame>>

\* scheduled_tasks from its start or its sleep: it reads the time and enters
\* the query of the report or the pruning, whichever is due (no time is in
\* both windows), or goes back to sleep
MaintenanceWakes(now) ==
    /\ Runs("scheduled_tasks", scheduled_task)
    /\ scheduled_task.pc \in {"created", "tick"}
    /\ ~scheduled_task.must_cancel
    /\ LET pc == IF ~running THEN "returned"
                 ELSE IF ReportDue(now) THEN "report"
                 ELSE IF CleanupDue(now) THEN "prune"
                 ELSE "tick"
       IN  /\ scheduled_task' = [scheduled_task EXCEPT !.pc = pc]
           /\ loop_thread' = Thread("scheduled_tasks", pc)
           /\ store_ops' =
                 IF pc = "report"
                 THEN store_ops
                         \cup {StoreOp("get_checks_for_date", "scheduled_tasks")}
                 ELSE IF pc = "prune"
                 THEN store_ops
                         \cup {StoreOp("cleanup_old_data", "scheduled_tasks")}
                 ELSE store_ops
    /\ UNCHANGED <<consecutive_failures, last_status, running, uptime_checks,
                   run_monitor, monitoring_task, ping, final_reports,
                   threadFrame>>

\* get_checks_for_date or cleanup_old_data is left; the rest of the iteration
\* runs to asyncio.sleep(300), or an exception leaves the coroutine.  k is the
\* number of rows older than the cutoff
MaintenanceEnds(outcome, k) ==
    /\ Runs("scheduled_tasks", scheduled_task)
    /\ scheduled_task.pc \in {"report", "prune"}
    /\ store_ops' = store_ops \ OpsOf("scheduled_tasks")
    /\ LET pc == IF outcome = "raise" THEN "raised" ELSE "tick"
       IN  /\ scheduled_task' = [scheduled_task EXCEPT !.pc = pc]
           /\ loop_thread' = Thread("scheduled_tasks", pc)
    /\ uptime_checks' = IF scheduled_task.pc = "prune" /\ outcome = "ok"
                        THEN Prune(uptime_checks, k)
                        ELSE uptime_checks
    /\ UNCHANGED <<consecutive_failures, last_status, running, run_monitor,
                   monitoring_task, ping, final_reports, threadFrame>>

\* CancelledError is thrown into scheduled_tasks where it is suspended
MaintenanceCancelled ==
    /\ Runs("scheduled_tasks", scheduled_task)
    /\ scheduled_task.pc = "created" \/ Yields(scheduled_task.pc)
    /\ scheduled_task.must_cancel
    /\ scheduled_task' = [scheduled_task EXCEPT !.pc = "cancelled",
                                                !.must_cancel = FALSE]
    /\ loop_thread' = "none"
    /\ store_ops' = store_ops \ OpsOf("scheduled_tasks")
    /\ UNCHANGED <<consecutive_failures, last_status, running, uptime_checks,
                   run_monitor, monitoring_task, ping, final_reports,
                   threadFrame>>

\* the first gather has ended and run_monitor is resumed: the except clauses,
\* then the finally block clears running, cancels both tasks and awaits the
\* second gather
FirstGatherEnds ==
    /\ Runs("run_monitor", run_monitor)
    /\ run_monitor.pc = "gather"
    /\ run_monitor.gather # "pending"
    /\ running' = FALSE
    /\ monitoring_task' = Cancel(monitoring_task)
    /\ scheduled_task' = Cancel(scheduled_task)
    /\ run_monitor' = [run_monitor EXCEPT
                          !.pc = "cleanup", !.must_cancel = FALSE,
                          !.cancel_requested = FALSE,
                          !.task_must_cancel = FALSE,
                          !.gather = "none",
                          !.pending = Pending(GatherOutcome(FALSE))]
    /\ loop_thread' = Thread("run_monitor", "cleanup")
    /\ UNCHANGED <<consecutive_failures, last_status, uptime_checks, ping,
                   final_reports, store_ops, threadFrame>>

\* the second gather ends when both tasks have ended: a cancellation met
\* there leaves run_monitor at once, otherwise generate_daily_report() enters
\* its query
FinalReportStarts ==
    /\ Runs("run_monitor", run_monitor)
    /\ run_monitor.pc = "cleanup"
    /\ TaskDone(monitoring_task) /\ TaskDone(scheduled_task)
    /\ IF run_monitor.must_cancel /\ ~CleanupCatches("CancelledError")
       THEN /\ run_monitor' = [run_monitor EXCEPT
                                  !.pc = "done", !.must_cancel = FALSE,
                                  !.result = "raised_CancelledError"]
            /\ loop_thread' = Thread("run_monitor", "done")
            /\ UNCHANGED store_ops
       ELSE /\ run_monitor' = [run_monitor EXCEPT !.pc = "final_report"]
            /\ loop_thread' = Thread("run_monitor", "final_report")
            /\ store_ops' =
                  store_ops
                     \cup {StoreOp("get_checks_for_date", "run_monitor")}
    /\ UNCHANGED <<consecutive_failures, last_status, running, uptime_checks,
                   monitoring_task, scheduled_task, ping, final_reports,
                   threadFrame>>

\* the query of the final report is left and run_monitor ends; an exception
\* of the report is logged
FinalReportEnds(report) ==
    /\ Runs("run_monitor", run_monitor)
    /\ run_monitor.pc = "final_report"
    /\ store_ops' = store_ops \ OpsOf("run_monitor")
    /\ run_monitor' = [run_monitor EXCEPT
                          !.pc = "done",
                          !.report = IF report = "ok" THEN "ok" ELSE "raised",
                          !.result = FinalResult(run_monitor.pending, report)]
    /\ loop_thread' = Thread("run_monitor", "done")
    /\ final_reports' = final_reports + 1
    /\ UNCHANGED <<consecutive_failures, last_status, running, uptime_checks,
                   monitoring_task, scheduled_task, ping, threadFrame>>

ThreadNext ==
    \/ LoopIterates
    \/ \E o \in ProbeOutcomes : GetEnds(o)
    \/ \E save \in {"ok", "raise"} : SaveEnds(save)
    \/ LoopCancelled
    \/ \E now \in Times : MaintenanceWakes(now)
    \/ \E outcome \in {"ok", "raise"}, k \in 0..MaxStored :
          k <= Len(uptime_checks) /\ MaintenanceEnds(outcome, k)
    \/ MaintenanceCancelled
    \/ CancelRunMonitor
    \/ GatherCallback
    \/ FirstGatherEnds
    \/ FinalReportStarts
    \/ \E report \in {"ok", "raise"} : FinalReportEnds(report)

ThreadSpec == ThreadInit /\ [][ThreadNext]_vars

----------------------------------------------------------------------------
(* Properties *)

Threshold == config.consecutive_failures_threshold

\* no channel has been handed the alert of the current cycle
NoChannelTouched == cycle.email = "none" /\ cycle.slack = "none"

\* C1: consecutive_failures is 0 before any probe is handled and is never
\* negative; once a probe has been handled it is 0 if the probe was a success
\* and one more than before if it was a failure (a non-200 response or a
\* transport error alike), so that it always equals the number of failures
\* handled since the last handled success.
C1_ConsecutiveFailures ==
    /\ consecutive_failures >= 0
    /\ cycle.end = "none" => consecutive_failures = 0
    /\ (cycle.end = "returned" /\ ping.is_up) => consecutive_failures = 0
    /\ (cycle.end = "returned" /\ ~ping.is_up) =>
           consecutive_failures = cycle.cf_before + 1
    /\ cycle.end = "returned" => consecutive_failures = streak

\* a success handled after two counted failures has brought the counter
\* back to 0
C1_Witness ==
    /\ cycle.end = "returned"
    /\ ping.is_up
    /\ cycle.cf_before = 2
    /\ consecutive_failures = 0

\* C2: with alert_on_failure set, the failure that is the n-th of its streak
\* reaches no channel when n is below the threshold, and is dispatched, to
\* every channel selected, whenever n is at or above it.
C2_ThresholdGate ==
    (config.alert_on_failure /\ cycle.handled /\ ~ping.is_up) =>
        LET n == cycle.streak_before + 1
        IN  /\ n < Threshold => (~cycle.dispatched /\ NoChannelTouched)
            /\ n >= Threshold =>
                   /\ cycle.dispatched
                   /\ EmailSelected(config) => cycle.email # "none"
                   /\ SlackSelected(config) => cycle.slack # "none"

\* the third failure of a streak, one past a threshold of 2, was delivered to
\* the webhook
C2_Witness ==
    /\ config.alert_on_failure
    /\ Threshold = 2
    /\ cycle.handled /\ ~ping.is_up
    /\ cycle.streak_before = 2
    /\ cycle.dispatched
    /\ cycle.slack = "delivered"

\* C3: a handled success offers a recovery alert to the notifier exactly when
\* it ends a streak of one or more failures, so once per streak and never
\* after another success or as the very first probe; a handled failure
\* offers a failure alert.
C3_RecoveryOncePerStreak ==
    cycle.handled =>
        IF ping.is_up
        THEN /\ cycle.offered # None <=> cycle.streak_before > 0
             /\ cycle.offered # None => ~cycle.offered[1].is_failure
             /\ streak = 0
        ELSE /\ cycle.offered # None
             /\ cycle.offered[1].is_failure

\* a success after a streak of two failures offered its recovery alert
C3_Witness ==
    /\ cycle.handled /\ ping.is_up
    /\ cycle.streak_before = 2
    /\ cycle.offered # None
    /\ ~cycle.offered[1].is_failure

\* C4: with alert_on_failure unset no failure alert reaches a channel, with
\* alert_on_recovery unset no recovery alert does; a recovery alert is sent
\* whatever alert_on_failure says, and a failure alert at or above the
\* threshold whatever alert_on_recovery says.
C4_FlagsSuppressOwnClass ==
    (cycle.handled /\ cycle.offered # None) =>
        LET a == cycle.offered[1]
        IN  /\ (a.is_failure /\ ~config.alert_on_failure) =>
                   (~cycle.dispatched /\ NoChannelTouched)
            /\ (~a.is_failure /\ ~config.alert_on_recovery) =>
                   (~cycle.dispatched /\ NoChannelTouched)
            /\ (~a.is_failure /\ config.alert_on_recovery) => cycle.dispatched
            /\ (a.is_failure /\ config.alert_on_failure
                   /\ cycle.streak_before + 1 >= Threshold) => cycle.dispatched

\* with failure alerts off and recovery alerts on, a recovery reached the
\* webhook
C4_Witness ==
    /\ ~config.alert_on_failure
    /\ config.alert_on_recovery
    /\ cycle.handled /\ ping.is_up
    /\ cycle.dispatched
    /\ cycle.slack = "delivered"

\* C5: in a call that passes the gate with both channels fully configured
\* and e-mail support present, a webhook send that fails leaves the e-mail
\* channel having received the alert (the message was handed to SMTP).
C5_EmailReceivesDespiteWebhook ==
    (/\ cycle.dispatched
     /\ EMAIL_AVAILABLE
     /\ EmailSelected(config) /\ EmailComplete(config)
     /\ SlackSelected(config)
     /\ cycle.slack = "failed")
        => cycle.email \in {"delivered", "smtp_failed"}

\* C6: whatever the channels did, send_alert returns to the probe cycle: a
\* cycle whose alert passed the gate never ends with an exception, and when
\* it has ended last_status holds its result and the loop is in, or was
\* cancelled in, the check_interval sleep, never the 60-second backoff.
C6_NotifyNeverFails ==
    cycle.dispatched =>
        /\ cycle.end # "raised"
        /\ cycle.end = "returned" =>
               /\ last_status = Some(ping.is_up)
               /\ monitoring_task.pc \in {"sleep_interval", "cancelled"}

\* both channels failed and the cycle ended in the check_interval sleep
C6_Witness ==
    /\ cycle.dispatched
    /\ cycle.email = "failed"
    /\ cycle.slack = "failed"
    /\ cycle.end = "returned"
    /\ last_status = Some(FALSE)
    /\ monitoring_task.pc = "sleep_interval"

\* C7: every failure of the GET becomes a result with is_up false and an
\* error message, which the probe goes on to save: no outcome of the GET
\* ends the probe with an exception.
C7_ProbeNeverRaises ==
    cycle.outcome \in {"RequestException", "Exception"} =>
        /\ ~ping.is_up
        /\ ping.error_message # None
        /\ cycle.saved # "no"

\* the classification invariant of one probe result
RowOK(r) ==
    /\ r.is_up <=> r.status_code = Some(SuccessCode)
    /\ r.is_up => r.error_message = None
    /\ ~r.is_up => ((r.error_message # None) # (r.status_code # None))
    /\ (~r.is_up /\ r.error_message # None) =>
           (r.response_time = None /\ r.status_code = None)
    /\ (~r.is_up /\ r.status_code # None) =>
           (r.response_time # None /\ r.error_message = None)

\* C8: every stored row and every returned result is up iff its status code
\* is 200, then without error message; a transport failure has neither
\* response time nor status code but an error message; a non-200 response
\* has response time and status code but no error message.
C8_ResultConsistent ==
    /\ \A i \in 1..Len(uptime_checks) : RowOK(uptime_checks[i])
    /\ cycle.end = "returned" => RowOK(Result(ping))

\* a non-200 response was stored and returned
C8_Witness ==
    /\ cycle.end = "returned"
    /\ Result(ping).status_code = Some(404)
    /\ \E i \in 1..Len(uptime_checks) : uptime_checks[i] = Row(ping)

\* C9: at most one probe is in progress, and a probe whose GET is in flight
\* is a fresh one: the loop is in no other probe's save, state update or
\* alert.
C9_ProbesSequential ==
    /\ active_pings \in {0, 1}
    /\ monitoring_task.pc \in {"get", "email", "slack"} <=> active_pings = 1
    /\ monitoring_task.pc = "get" =>
           (cycle.saved = "no" /\ ~cycle.handled /\ ~cycle.dispatched)

\* the GET of a second probe is in flight after the first probe completed
C9_Witness ==
    /\ monitoring_task.pc = "get"
    /\ active_pings = 1
    /\ last_status # None

\* C10: when run_monitor has ended, on whatever path, running is false,
\* cancel() was called on both loop tasks, both are done, and the final
\* report was attempted exactly once.
C10_ShutdownReportsOnce ==
    run_monitor.pc = "done" =>
        /\ ~running
        /\ monitoring_task.cancel_called /\ scheduled_task.cancel_called
        /\ TaskDone(monitoring_task) /\ TaskDone(scheduled_task)
        /\ final_reports = 1

\* C11: the step in which save_check_result raises changes neither
\* consecutive_failures nor last_status nor the store, offers no alert, and
\* leaves the probe loop alive in its 60-second backoff.
C11_SaveRaiseAborts ==
    [][(cycle'.saved = "raised" /\ cycle.saved # "raised") =>
          /\ consecutive_failures' = consecutive_failures
          /\ last_status' = last_status
          /\ uptime_checks' = uptime_checks
          /\ ~cycle'.handled /\ cycle'.offered = None /\ ~cycle'.dispatched
          /\ monitoring_task'.pc = "sleep_backoff"]_vars

\* a save raised after one counted failure: the counter and last_status
\* still hold that failure, the loop is in its backoff
C11_Witness ==
    /\ cycle.saved = "raised"
    /\ cycle.end = "raised"
    /\ consecutive_failures = 1
    /\ last_status = Some(FALSE)
    /\ monitoring_task.pc = "sleep_backoff"

\* C12: the probe loop never ends with an exception; until it is cancelled a
\* cycle that returned is followed by the check_interval sleep and a cycle
\* that raised by the 60-second backoff; and from either sleep, while the
\* store has room for the next row, another probe starts unless a
\* cancellation is requested first.
C12_LoopSurvives ==
    /\ [](monitoring_task.pc # "raised")
    /\ []((cycle.end = "returned" /\ ~TaskDone(monitoring_task)) =>
              monitoring_task.pc = "sleep_interval")
    /\ []((cycle.end = "raised" /\ ~TaskDone(monitoring_task)) =>
              monitoring_task.pc = "sleep_backoff")
    /\ (/\ monitoring_task.pc \in {"sleep_interval", "sleep_backoff"}
        /\ Len(uptime_checks) < MaxRows)
          ~> (\/ monitoring_task.pc = "get"
              \/ monitoring_task.must_cancel
              \/ TaskDone(monitoring_task))

\* an exception other than a RequestException left the GET: the loop runs
\* on, in its backoff, with no cancellation requested
C12_Witness ==
    /\ running
    /\ cycle.outcome = "Exception"
    /\ cycle.end = "raised"
    /\ monitoring_task.pc = "sleep_backoff"
    /\ ~monitoring_task.must_cancel

\* C13: an error of the daily report or of the pruning inside the
\* maintenance loop ends neither that loop nor, through run_monitor, the
\* monitor: scheduled_tasks never ends with an exception and run_monitor never
\* shuts down on one.
C13_MaintenanceErrorOnlyLogged ==
    /\ scheduled_task.pc # "raised"
    /\ run_monitor.pending # "Exception"

\* C14: when the final report has been attempted, running is false and
\* run_monitor ends as the shutdown path decided, whether the report worked
\* or raised: it returns when no exception of a loop was pending, and ends
\* with an exception only if one was.
C14_FinalReportNotEscalated ==
    (run_monitor.pc = "done" /\ run_monitor.report # "none") =>
        /\ ~running
        /\ run_monitor.pending = "none" => run_monitor.result = "returned"
        /\ run_monitor.result = "raised_Exception" =>
               run_monitor.pending = "Exception"

\* the final report raised and run_monitor returned normally
C14_Witness ==
    /\ run_monitor.pc = "done"
    /\ run_monitor.report = "raised"
    /\ run_monitor.result = "returned"
    /\ ~running

\* C15: a step of a loop task that has a cancellation requested ends the
\* task as cancelled, where it was suspended: it starts no probe and no
\* maintenance check, touches neither the store nor the monitor state, and
\* does not wait for the pending operation or sleep to end.
C15_CancellationEndsLoop ==
    [][/\ (monitoring_task.must_cancel
            /\ monitoring_task'.pc # monitoring_task.pc) =>
              /\ monitoring_task'.pc = "cancelled"
              /\ active_pings' = 0
              /\ UNCHANGED <<uptime_checks, consecutive_failures,
                             last_status, ping>>
       /\ (scheduled_task.must_cancel
            /\ scheduled_task'.pc # scheduled_task.pc) =>
              /\ scheduled_task'.pc = "cancelled"
              /\ UNCHANGED uptime_checks]_vars

\* the probe loop was cancelled while the webhook send of an alert was in
\* flight, the maintenance loop in its tick sleep
C15_Witness ==
    /\ monitoring_task.pc = "cancelled"
    /\ cycle.end = "cancelled"
    /\ cycle.slack = "in_flight"
    /\ scheduled_task.pc = "cancelled"
    /\ scheduled_task.cancel_called

\* C16: send_alert does not return with the alert failed on a channel after
\* a single attempt: a failed send is attempted again.
C16_FailedSendRetried ==
    (cycle.dispatched /\ cycle.end = "returned") =>
        /\ cycle.slack # "failed"
        /\ cycle.email \notin {"failed", "smtp_failed"}

\* the calls of the latest step to the operation op
CallsOf(op) == SelectSeq(calls.list, LAMBDA c : c.op = op)

\* seconds since the hour began
SecondsPastHour == clock.minute * 60 + clock.second

\* C17: a maintenance check generates the daily report exactly when the
\* local time has hour 0 and minute at most 5, that is from 00:00:00 to
\* 00:05:59, and then exactly once and for the previous calendar day.
C17_ReportWindow ==
    calls.by = "scheduled_tasks" =>
        LET reports == CallsOf("generate_daily_report")
        IN  /\ Len(reports) = IF clock.hour = 0 /\ clock.minute <= 5
                              THEN 1 ELSE 0
            /\ \A i \in 1..Len(reports) : reports[i].arg = clock.day - 1

\* C17 as stated: the report is generated exactly when at most 5 minutes
\* have passed since local midnight.
C17_ReportWithinFiveMinutes ==
    calls.by = "scheduled_tasks" =>
        (Len(CallsOf("generate_daily_report")) >= 1
            <=> (clock.hour = 0 /\ SecondsPastHour <= 5 * 60))

\* a check at 00:05:30 of day 1 generated the report of day 0
C17_Witness ==
    /\ calls.by = "scheduled_tasks"
    /\ clock.day = 1 /\ clock.hour = 0 /\ clock.minute = 5
    /\ clock.second = 30
    /\ calls.list = <<[op |-> "generate_daily_report", arg |-> 0]>>

\* C18: a maintenance check prunes exactly when the local time is a Sunday
\* with hour 2 and minute at most 5, that is from 02:00:00 to 02:05:59, and
\* then exactly once and with the configured days_to_keep.
C18_PruneWindow ==
    calls.by = "scheduled_tasks" =>
        LET prunes == CallsOf("cleanup_old_data")
        IN  /\ Len(prunes) = IF /\ Weekday(clock.day) = 6
                                /\ clock.hour = 2 /\ clock.minute <= 5
                             THEN 1 ELSE 0
            /\ \A i \in 1..Len(prunes) : prunes[i].arg = config.days_to_keep

\* C18 as stated: the pruning runs exactly when it is Sunday and at most 5
\* minutes have passed since 2 AM.
C18_PruneWithinFiveMinutes ==
    calls.by = "scheduled_tasks" =>
        (Len(CallsOf("cleanup_old_data")) >= 1
            <=> (/\ Weekday(clock.day) = 6 /\ clock.hour = 2
                 /\ SecondsPastHour <= 5 * 60))

\* a check on Sunday at 02:05:30 pruned with days_to_keep = 1 and deleted a
\* row
C18_Witness ==
    /\ calls.by = "scheduled_tasks"
    /\ clock.weekday = 6 /\ clock.hour = 2 /\ clock.minute = 5
    /\ clock.second = 30
    /\ config.days_to_keep = 1
    /\ calls.list = <<[op |-> "cleanup_old_data", arg |-> 1]>>
    /\ calls.deleted = 1

\* C19: a step that prunes with d days, called directly or by the
\* maintenance check, leaves in the table exactly the rows, whatever their
\* url, whose timestamp is not before now - d days, unmodified and in their
\* order, and deletes as many rows as were older; with no older row the
\* table is unchanged.
C19_PruneRemovesOlder ==
    [][\A i \in 1..Len(calls'.list) :
          calls'.list[i].op = "cleanup_old_data" =>
              LET limit == Timestamp(clock) - calls'.list[i].arg * SecondsPerDay
                  old == {j \in 1..Len(uptime_checks) :
                             uptime_checks[j].timestamp < limit}
              IN  /\ uptime_checks' =
                        SelectSeq(uptime_checks,
                                  LAMBDA r : r.timestamp >= limit)
                  /\ calls'.deleted = Cardinality(old)
                  /\ old = {} => uptime_checks' = uptime_checks]_vars

\* a pruning with one day to keep deleted one row and kept a row of the
\* other url that is exactly one day old
C19_Witness ==
    /\ calls.list = <<[op |-> "cleanup_old_data", arg |-> 1]>>
    /\ calls.deleted = 1
    /\ Len(uptime_checks) = 1
    /\ uptime_checks[1].timestamp = Timestamp(clock) - SecondsPerDay
    /\ uptime_checks[1].url = "u2"

\* C20: cleanup_old_data returns to its caller the number of rows it
\* deleted, zero when no row was eligible.
C20_PruneReturnsCount ==
    (calls.by = "caller" /\ Len(CallsOf("cleanup_old_data")) = 1) =>
        returned = Some(calls.deleted)

\* the call the latest step of a caller made on the store
CallerOp == IF calls.by = "caller" THEN calls.list[1].op ELSE "none"

\* the calendar day of a timestamp
DayOf(ts) == ts \div SecondsPerDay

\* seq holds the rows of the table with the rowids in ids, each once
HoldsExactly(seq, rows, ids) ==
    \E f \in [1..Len(seq) -> ids] :
        /\ \A i \in ids : \E k \in 1..Len(seq) : f[k] = i
        /\ \A k, l \in 1..Len(seq) : f[k] = f[l] => k = l
        /\ \A k \in 1..Len(seq) : seq[k] = rows[f[k]]

\* C21: a step that asks for the checks of url u on day d returns exactly
\* the rows of the table whose url is u and whose timestamp is on day d, no
\* row of another day or url, in the order of ascending timestamps, and
\* leaves the table unchanged.
C21_DateQuery ==
    [][calls'.by = "caller" /\ calls'.list[1].op = "get_checks_for_date" =>
          LET u == calls'.list[1].url
              d == calls'.list[1].arg
              result == returned'[1]
              wanted == {i \in 1..Len(uptime_checks) :
                            /\ uptime_checks[i].url = u
                            /\ DayOf(uptime_checks[i].timestamp) = d}
          IN  /\ HoldsExactly(result, uptime_checks, wanted)
              /\ \A k \in 1..Len(result) :
                    result[k].url = u /\ DayOf(result[k].timestamp) = d
              /\ \A k, l \in 1..Len(result) :
                    k < l => result[k].timestamp <= result[l].timestamp
              /\ uptime_checks' = uptime_checks]_vars

\* the table holds a row of the last second of day 0 and a row of the first
\* second of day 1, and the query for day 0 returned the first one only
C21_Witness ==
    /\ CallerOp = "get_checks_for_date"
    /\ calls.list[1].url = "u1" /\ calls.list[1].arg = 0
    /\ Len(uptime_checks) = 2
    /\ uptime_checks[1].url = "u1" /\ uptime_checks[2].url = "u1"
    /\ uptime_checks[1].timestamp = SecondsPerDay - 1
    /\ uptime_checks[2].timestamp = SecondsPerDay
    /\ returned = Some(<<uptime_checks[1]>>)

\* C22: a step that asks for the recent checks of url u with a limit n >= 0
\* returns min(n, number of rows of u) rows, all of u, none older than a row
\* of u it leaves out, the most recent first; a call that gives no limit has
\* the limit 10.
C22_RecentQuery ==
    [][/\ LimitOf(None) = 10
       /\ calls'.by = "caller" /\ calls'.list[1].op = "get_recent_checks" =>
          LET u == calls'.list[1].url
              n == calls'.list[1].arg
              result == returned'[1]
              ofUrl == {i \in 1..Len(uptime_checks) : uptime_checks[i].url = u}
              count == Cardinality(ofUrl)
          IN  /\ Len(result) = IF n < count THEN n ELSE count
              /\ \E chosen \in SUBSET ofUrl :
                    /\ HoldsExactly(result, uptime_checks, chosen)
                    /\ \A i \in chosen, j \in ofUrl \ chosen :
                          uptime_checks[i].timestamp >=
                              uptime_checks[j].timestamp
              /\ \A k \in 1..Len(result) : result[k].url = u
              /\ \A k, l \in 1..Len(result) :
                    k < l => result[k].timestamp >= result[l].timestamp
              /\ uptime_checks' = uptime_checks]_vars

\* of two rows of u1 the query with limit 1 returned the later one only
C22_Witness ==
    /\ CallerOp = "get_recent_checks"
    /\ calls.list[1].url = "u1" /\ calls.list[1].arg = 1
    /\ Len(uptime_checks) = 2
    /\ uptime_checks[1].url = "u1" /\ uptime_checks[2].url = "u1"
    /\ uptime_checks[1].timestamp < uptime_checks[2].timestamp
    /\ returned = Some(<<uptime_checks[2]>>)

\* C23: every step leaves the rows of the table unmodified and in their
\* order; a probe cycle that completes appends exactly one row, which holds
\* the monitor's url and the is_up, response_time, status_code and
\* error_message of that probe; nothing else appends a row, and rows
\* disappear only in a step that prunes.
C23_AppendOnly ==
    [][LET n == Len(uptime_checks)
           completed == calls'.by = "ping_url" /\ returned' # None
           prunes == \E i \in 1..Len(calls'.list) :
                         calls'.list[i].op = "cleanup_old_data"
       IN  /\ completed =>
                /\ Len(uptime_checks') = n + 1
                /\ LET row == uptime_checks'[n + 1]
                       result == returned'[1]
                   IN  /\ row.url = MonitorUrl
                       /\ row.is_up = result.is_up
                       /\ row.response_time = result.response_time
                       /\ row.status_code = result.status_code
                       /\ row.error_message = result.error_message
           /\ ~completed => Len(uptime_checks') <= n
           /\ ~prunes =>
                /\ Len(uptime_checks') >= n
                /\ SubSeq(uptime_checks', 1, n) = uptime_checks
           /\ prunes =>
                \E kept \in SUBSET (1..n) :
                    /\ Len(uptime_checks') = Cardinality(kept)
                    /\ \A k \in 1..Len(uptime_checks') :
                          \E i \in kept :
                              /\ uptime_checks'[k] = uptime_checks[i]
                              /\ Cardinality({j \in kept : j < i}) = k - 1
      ]_vars

\* a probe that met a transport error completed and appended the second row
\* of the table, after the row of a probe that was up
C23_Witness ==
    /\ calls.by = "ping_url"
    /\ returned # None
    /\ Len(uptime_checks) = 2
    /\ uptime_checks[1].is_up
    /\ ~uptime_checks[2].is_up
    /\ uptime_checks[2].error_message = Some("e1")
    /\ uptime_checks[2].url = MonitorUrl
    /\ returned[1].error_message = Some("e1")

\* C24: a step that runs init_database on the initialized store, as every
\* construction of DatabaseManager does, succeeds and leaves every row of
\* the table as it was.
C24_InitIdempotent ==
    [][calls'.by = "caller" /\ calls'.list[1].op = "init_database" =>
          /\ uptime_checks' = uptime_checks
          /\ returned' = None]_vars

\* a DatabaseManager was constructed on a table of two rows
C24_Witness ==
    /\ CallerOp = "init_database"
    /\ Len(uptime_checks) = 2
    /\ uptime_checks[1].url # uptime_checks[2].url

\* C25: the failure alert a handled failure offers to the notifier carries
\* the counter as it is right after that failure's increment, which is its
\* value while the alert is sent and after, and the error_message of that
\* same probe; with threshold 2 and alert_on_failure the first failure of a
\* streak is not dispatched and the second and the third are, with counts 2
\* and 3.
C25_FailureIntent ==
    (cycle.handled /\ ~ping.is_up) =>
        /\ cycle.offered =
              Some([is_failure |-> TRUE,
                    consecutive_failures |-> cycle.cf_before + 1,
                    error_message |-> ping.error_message])
        /\ consecutive_failures = cycle.cf_before + 1
        /\ (config.alert_on_failure /\ Threshold = 2) =>
              (cycle.dispatched <=> cycle.offered[1].consecutive_failures >= 2)

\* with threshold 2 the third transport failure of a streak, e2, was
\* dispatched with count 3 and its own message
C25_Witness ==
    /\ Threshold = 2
    /\ cycle.handled /\ ~ping.is_up
    /\ cycle.cf_before = 2
    /\ ping.error_message = Some("e2")
    /\ cycle.dispatched
    /\ cycle.offered = Some([is_failure |-> TRUE, consecutive_failures |-> 3,
                             error_message |-> Some("e2")])

\* C26: last_status is absent as long as no probe has been handled to the
\* end; the step that ends the handling of a probe sets it to that probe's
\* is_up, and no other step changes it.
C26_LastStatus ==
    [][/\ cycle.end = "none" => last_status = None
       /\ IF cycle'.end = "returned" /\ cycle.end # "returned"
          THEN last_status' = Some(ping'.is_up)
          ELSE last_status' = last_status]_vars

\* the second failure of a streak has been handled to the end
C26_Witness ==
    /\ cycle.end = "returned"
    /\ ~ping.is_up
    /\ cycle.cf_before = 1
    /\ last_status = Some(FALSE)

\* C27: between probe cycles consecutive_failures is the number of probes
\* not up since the last probe that was up: a cycle that starts with the
\* counter at c and whose probe is not up ends with c + 1, and one whose probe
\* is up ends with 0, also when the cycle is aborted by an error of
\* save_check_result.
C27_CounterCountsProbes ==
    [][(/\ cycle.end = "running"
        /\ cycle'.end \in {"returned", "raised"}
        /\ PingCatches(cycle'.outcome)) =>
          LET start == IF cycle'.handled THEN cycle'.cf_before
                       ELSE consecutive_failures
          IN  consecutive_failures' = IF ping'.is_up THEN 0 ELSE start + 1]_vars

\* C28: while the alert of a probe is being sent, the row of the probe is
\* in the table and the state is updated: consecutive_failures and
\* last_status have the values the probe gives them, for a failure and for a
\* recovery alike.
C28_StateBeforeAlert ==
    (cycle.email = "in_flight" \/ cycle.slack = "in_flight") =>
        /\ cycle.saved = "yes"
        /\ last_status = Some(ping.is_up)
        /\ consecutive_failures = IF ping.is_up THEN 0 ELSE cycle.cf_before + 1

\* C29: the probe loop does not wait for a channel send: while a send is in
\* flight ping_url() has returned and the loop is in its sleep or beyond.
C29_SendsNotAwaited ==
    (cycle.email = "in_flight" \/ cycle.slack = "in_flight") =>
        /\ cycle.end = "returned"
        /\ monitoring_task.pc \notin {"email", "slack"}

\* C30: the row a completed probe stores carries the timestamp the probe took
\* before its GET, the one its result carries, so the row is of the calendar
\* day on which the probe started.
C30_RowStampedAtStart ==
    (calls.by = "ping_url" /\ returned # None) =>
        LET row == uptime_checks[Len(uptime_checks)]
        IN  /\ row.timestamp = returned[1].timestamp
            /\ DayOf(row.timestamp) = DayOf(returned[1].timestamp)

\* the e-mail of the current cycle's alert was handed to the SMTP send
EmailHandedOver == cycle.email \in {"in_flight", "delivered", "smtp_failed"}

\* C31: when the alert of a cycle has passed the gate and send_alert has
\* returned, with e-mail support present, the e-mail was handed to the SMTP
\* send exactly if server, username, password and recipients are all
\* configured, the webhook was posted to exactly if its url is configured,
\* and with neither configured no channel was touched and the cycle did not
\* raise.
C31_ChannelsByConfig ==
    (cycle.dispatched /\ cycle.end \in {"returned", "raised"}
     /\ EMAIL_AVAILABLE) =>
        /\ EmailHandedOver <=> EmailComplete(config)
        /\ cycle.slack # "none" <=> config.slack_webhook_url
        /\ (~EmailComplete(config) /\ ~config.slack_webhook_url) =>
              /\ NoChannelTouched \/ cycle.email = "skipped_incomplete"
              /\ cycle.end = "returned"

\* the step is one of the probe loop inside ping_url(): the loop was awaiting
\* the GET or a channel send and has moved on
ProbeHandlingStep ==
    /\ monitoring_task.pc \in {"get", "email", "slack"}
    /\ monitoring_task'.pc # monitoring_task.pc

\* the step is one of scheduled_tasks: it began or ended, or it pruned
MaintenanceStep ==
    \/ /\ scheduled_task.pc \in {"created", "tick"}
       /\ scheduled_task'.pc # scheduled_task.pc
    \/ Len(uptime_checks') < Len(uptime_checks)

\* C32: only a step of the probe loop in its ping_url() changes
\* consecutive_failures or last_status: no step of scheduled_tasks, of the
\* reports or of run_monitor's start and shutdown does; running is changed
\* by run_monitor alone, never in a step scheduled_tasks takes.
C32_SingleWriter ==
    [][/\ (consecutive_failures' # consecutive_failures
           \/ last_status' # last_status) =>
              /\ ProbeHandlingStep
              /\ scheduled_task' = scheduled_task
              /\ run_monitor' = run_monitor
       /\ MaintenanceStep =>
              /\ running' = running
              /\ consecutive_failures' = consecutive_failures
              /\ last_status' = last_status
       /\ running' # running => run_monitor'.pc # run_monitor.pc]_vars

\* run_monitor has shut down and made its final report after a streak of two
\* failures, between which scheduled_tasks pruned the table
C32_Witness ==
    /\ run_monitor.pc = "done"
    /\ final_reports = 1
    /\ scheduled_task.pc = "cancelled"
    /\ consecutive_failures = 2
    /\ last_status = Some(FALSE)

\* the sleeps of monitoring_loop
Sleeps == {"sleep_interval", "sleep_backoff"}

\* C33: in the probe loop a ping_url() that raises an exception is followed
\* by a check_interval sleep, the 60-second sleep coming after it (the sleeps
\* of a raising, a returning and a cancelled ping being check_interval, 60,
\* check_interval).
C33_IntervalSleepFirst ==
    [][(cycle.end = "running" /\ cycle'.end = "raised") =>
          monitoring_task'.pc = "sleep_interval"]_vars

\* C34: once scheduled_tasks, which made a check before the midnight, has
\* ticked past the six minutes after it, it has generated the report in
\* that window once or twice, every time for the day before, and never
\* outside the window.
C34_ReportOnceOrTwice ==
    Timestamp(clock) >= Midnight + WindowSeconds =>
        LET inWindow == {i \in 1..Len(daily_reports) :
                            /\ daily_reports[i].at >= Midnight
                            /\ daily_reports[i].at < Midnight + WindowSeconds}
        IN  /\ Cardinality(inWindow) \in {1, 2}
            /\ \A i \in 1..Len(daily_reports) :
                  /\ i \in inWindow
                  /\ daily_reports[i].target_date = DayOf(Midnight) - 1

\* the loop has passed the window and generated the report of the day before
\* twice, 300 seconds apart
C34_Witness ==
    /\ Timestamp(clock) >= Midnight + WindowSeconds
    /\ Len(daily_reports) = 2
    /\ daily_reports[2].at = daily_reports[1].at + TickSeconds
    /\ daily_reports[1].target_date = daily_reports[2].target_date

\* C35: with alert_on_recovery set, the success handled after a streak of
\* k >= 1 failures has its recovery alert dispatched, to every channel
\* selected, whatever the threshold and alert_on_failure are, so also when
\* no failure of the streak was dispatched; a success handled with no streak
\* before it dispatches nothing, so a streak has one recovery alert.
C35_RecoveryUngated ==
    (config.alert_on_recovery /\ cycle.handled /\ ping.is_up) =>
        IF cycle.streak_before >= 1
        THEN /\ cycle.offered # None
             /\ ~cycle.offered[1].is_failure
             /\ cycle.dispatched
             /\ EmailSelected(config) => cycle.email # "none"
             /\ SlackSelected(config) => cycle.slack # "none"
        ELSE ~cycle.dispatched /\ NoChannelTouched

\* with threshold 2 a streak of a single failure, which was not dispatched,
\* ended with a recovery alert delivered to the webhook
C35_Witness ==
    /\ config.alert_on_recovery
    /\ config.alert_on_failure
    /\ Threshold = 2
    /\ cycle.handled /\ ping.is_up
    /\ cycle.streak_before = 1
    /\ cycle.dispatched
    /\ cycle.slack = "delivered"
    /\ cycle.end = "returned"

\* C36: the step in which the probe loop, awaiting the GET of a probe, meets
\* its cancellation ends the loop and leaves the table, consecutive_failures
\* and last_status as they were; the probe was neither saved nor handled and
\* offered no alert.
C36_CancelledProbeNoEffect ==
    [][(/\ monitoring_task.pc = "get"
        /\ monitoring_task.must_cancel
        /\ monitoring_task'.pc # "get") =>
          /\ monitoring_task'.pc = "cancelled"
          /\ cycle'.end = "cancelled"
          /\ uptime_checks' = uptime_checks
          /\ consecutive_failures' = consecutive_failures
          /\ last_status' = last_status
          /\ cycle'.saved = "no"
          /\ ~cycle'.handled
          /\ cycle'.offered = None
          /\ ~cycle'.dispatched /\ cycle'.email = "none"
          /\ cycle'.slack = "none"]_vars

\* the probe that followed a handled failure was cancelled in its GET: the
\* counter is still 1 and last_status false
C36_Witness ==
    /\ cycle.end = "cancelled"
    /\ cycle.outcome = "none"
    /\ monitoring_task.pc = "cancelled"
    /\ consecutive_failures = 1
    /\ last_status = Some(FALSE)

\* C37: while the probe loop is in its check_interval sleep or its backoff
\* sleep, last_status and consecutive_failures agree: true goes with 0, false
\* with at least 1, absent with 0.
C37_ConsistentBetweenCycles ==
    monitoring_task.pc \in Sleeps =>
        /\ last_status = Some(TRUE) => consecutive_failures = 0
        /\ last_status = Some(FALSE) => consecutive_failures >= 1
        /\ last_status = None => consecutive_failures = 0

\* a successful probe whose save raised was not handled: in the backoff sleep
\* the streak of two failures and last_status false still stand together
C37_Witness ==
    /\ monitoring_task.pc = "sleep_backoff"
    /\ cycle.saved = "raised"
    /\ ping # None /\ ping.is_up
    /\ consecutive_failures = 2
    /\ last_status = Some(FALSE)

\* C38: at most one call of DatabaseManager is in progress at any time, and
\* the coroutine that entered it holds the thread of the event loop until it
\* has left it: the append of the probe loop, the query and the pruning of
\* scheduled_tasks and the query of the final report never overlap.
C38_StoreOpsNeverOverlap ==
    /\ Cardinality(store_ops) <= 1
    /\ \A o \in store_ops : loop_thread = o.by
    /\ (monitoring_task.pc = "save") =
          (StoreOp("save_check_result", "monitoring_loop") \in store_ops)
    /\ (scheduled_task.pc = "report") =
          (StoreOp("get_checks_for_date", "scheduled_tasks") \in store_ops)
    /\ (scheduled_task.pc = "prune") =
          (StoreOp("cleanup_old_data", "scheduled_tasks") \in store_ops)
    /\ (run_monitor.pc = "final_report") =
          (StoreOp("get_checks_for_date", "run_monitor") \in store_ops)

\* the probe loop is inside save_check_result while scheduled_tasks, asleep
\* with a row in the table, could be woken at a time its pruning is due
C38_Witness ==
    /\ store_ops = {StoreOp("save_check_result", "monitoring_loop")}
    /\ scheduled_task.pc = "tick"
    /\ Len(uptime_checks) = 1
    /\ running

\* the e-mail attempt of the current cycle's alert has ended
EmailFinished ==
    cycle.email \in {"skipped_unavailable", "skipped_incomplete", "failed",
                     "delivered", "smtp_failed"}

\* the webhook attempt of the current cycle's alert has ended
SlackFinished == cycle.slack \in {"delivered", "failed"}

\* C39: in one send_alert call the e-mail attempt has ended before the webhook
\* post starts, a channel is attempted once (an attempt that has ended stays
\* as it ended until the next probe), and when send_alert returns every
\* selected channel has had its attempt and it has ended.
C39_ChannelsInOrder ==
    [][/\ (cycle'.slack = "in_flight" /\ cycle.slack # "in_flight") =>
             /\ cycle.slack = "none"
             /\ cycle'.dispatched
             /\ cycle'.email # "in_flight"
             /\ EmailSelected(config) => EmailFinished'
       /\ SlackFinished =>
             \/ cycle'.slack = cycle.slack
             \/ cycle'.slack = "none" /\ ~cycle'.dispatched
       /\ EmailFinished =>
             \/ cycle'.email = cycle.email
             \/ cycle'.email = "none" /\ ~cycle'.dispatched
       /\ (cycle'.end = "returned" /\ cycle.end # "returned"
              /\ cycle'.dispatched) =>
             /\ IF EmailSelected(config) THEN EmailFinished'
                ELSE cycle'.email = "none"
             /\ IF SlackSelected(config) THEN SlackFinished'
                ELSE cycle'.slack = "none"]_vars

\* both channels were attempted in one call: the e-mail attempt failed, the
\* webhook post was delivered after it, and ping_url() has returned
C39_Witness ==
    /\ cycle.dispatched
    /\ cycle.email = "failed"
    /\ cycle.slack = "delivered"
    /\ cycle.end = "returned"
    /\ monitoring_task.pc = "sleep_interval"

=============================================================================
